---- MODULE Spec2Model ----
(***************************************************************************)
(* State-machine model of gview (naojsoft/gview): the ZVIEW-compatible     *)
(* command interpreter of GView.py / ZView.py, its buffer registry, its    *)
(* viewer registry with the current-viewer pointer, the start-up loop of   *)
(* main.py and the close event of a viewer window.                         *)
(*                                                                         *)
(* Python strings are modelled as sequences of one-character strings so    *)
(* that strip(), split(), lower(), startswith(), int() and float() are     *)
(* computed character by character, as the interpreter does.  Python       *)
(* objects (AstroImage, FitsViewer) live in two heaps, `images` and        *)
(* `fitsviewers`; an object reference is the index of the object in its    *)
(* heap and None is the reference 0.                                       *)
(***************************************************************************)
EXTENDS Integers, Sequences, FiniteSets, TLC

\* ------------------------------------------------------------------ bounds
\* Number of FitsViewer objects a behaviour may create.
MaxViewers == 2
\* Number of AstroImage objects a behaviour may create.
MaxImages == 2

\* ------------------------------------------------------- program constants
\* Python's None, as an object reference (ZView.py:33, self._view = None).
None == 0
default_viewer_width == 900
default_viewer_height == 1000

\* ------------------------------------------------------ Python str methods
Whitespace == {" ", "\t"}

RECURSIVE lstrip(_)
lstrip(t) == IF t # <<>> /\ Head(t) \in Whitespace THEN lstrip(Tail(t)) ELSE t

RECURSIVE rstrip(_)
rstrip(t) ==
    IF t # <<>> /\ t[Len(t)] \in Whitespace
    THEN rstrip(SubSeq(t, 1, Len(t) - 1))
    ELSE t

\* str.strip(): GView.py:254
strip(t) == rstrip(lstrip(t))

RECURSIVE split_from(_, _, _)
split_from(t, cur, acc) ==
    IF t = <<>>
    THEN IF cur = <<>> THEN acc ELSE Append(acc, cur)
    ELSE IF Head(t) \in Whitespace
         THEN split_from(Tail(t), <<>>, IF cur = <<>> THEN acc ELSE Append(acc, cur))
         ELSE split_from(Tail(t), Append(cur, Head(t)), acc)

\* str.split() with no separator: runs of whitespace separate the words and
\* no empty word is produced (GView.py:262).
split(t) == split_from(t, <<>>, <<>>)

\* str.startswith(): GView.py:257, ZView.py:102
startswith(t, p) == Len(t) >= Len(p) /\ SubSeq(t, 1, Len(p)) = p

UpperCase == <<"A", "B", "C", "D", "E", "F", "G", "H", "I", "J", "K", "L", "M", "N", "O", "P", "Q", "R", "S", "T", "U", "V", "W", "X", "Y", "Z">>
LowerCase == <<"a", "b", "c", "d", "e", "f", "g", "h", "i", "j", "k", "l", "m", "n", "o", "p", "q", "r", "s", "t", "u", "v", "w", "x", "y", "z">>

lower_char(c) ==
    IF \E k \in 1..Len(UpperCase) : UpperCase[k] = c
    THEN LowerCase[CHOOSE k \in 1..Len(UpperCase) : UpperCase[k] = c]
    ELSE c

\* a lower() that leaves its string as it is
mutant_lower(t) == t

\* str.upper() of one character
upper_char(c) ==
    IF \E k \in 1..Len(LowerCase) : LowerCase[k] = c
    THEN UpperCase[CHOOSE k \in 1..Len(LowerCase) : LowerCase[k] = c]
    ELSE c

\* str.lower(): GView.py:266
lower(t) == [k \in 1..Len(t) |-> lower_char(t[k])]

\* sep.join(words): ZView.py:83, 294, 358
RECURSIVE join(_, _)
join(sep, ws) ==
    IF ws = <<>> THEN <<>>
    ELSE IF Len(ws) = 1 THEN ws[1]
    ELSE ws[1] \o sep \o join(sep, Tail(ws))

\* Order of the characters (their code points), for the comparison of
\* strings by list.sort().
CharOrder == <<"\t", " ", "+", "-", ".", "/", "0", "1", "2", "3", "4", "5", "6", "7", "8", "9", "A", "B", "C", "D", "E", "F", "G", "H", "I", "J", "K", "L", "M", "N", "O", "P", "Q", "R", "S", "T", "U", "V", "W", "X", "Y", "Z", "_", "a", "b", "c", "d", "e", "f", "g", "h", "i", "j", "k", "l", "m", "n", "o", "p", "q", "r", "s", "t", "u", "v", "w", "x", "y", "z">>
ord(c) == CHOOSE k \in 1..Len(CharOrder) : CharOrder[k] = c

RECURSIVE str_less(_, _)
str_less(a, b) ==
    IF a = <<>> THEN b # <<>>
    ELSE IF b = <<>> THEN FALSE
    ELSE IF Head(a) = Head(b) THEN str_less(Tail(a), Tail(b))
    ELSE ord(Head(a)) < ord(Head(b))

\* a sort that puts the names in descending order
RECURSIVE mutant_sorted(_)
mutant_sorted(S) ==
    IF S = {} THEN <<>>
    ELSE LET m == CHOOSE x \in S : \A y \in S \ {x} : str_less(y, x)
         IN <<m>> \o mutant_sorted(S \ {m})

\* names = list(d.keys()); names.sort(): ZView.py:280-281, 346-347
RECURSIVE sorted(_)
sorted(S) ==
    IF S = {} THEN <<>>
    ELSE LET m == CHOOSE x \in S : \A y \in S \ {x} : str_less(x, y)
         IN <<m>> \o sorted(S \ {m})

\* ------------------------------------------------- Python int() and float()
Digits == <<"0", "1", "2", "3", "4", "5", "6", "7", "8", "9">>
IsDigit(c) == \E k \in 1..Len(Digits) : Digits[k] = c
DigitVal(c) == (CHOOSE k \in 1..Len(Digits) : Digits[k] = c) - 1

Unsigned(t) == IF t # <<>> /\ Head(t) \in {"+", "-"} THEN Tail(t) ELSE t
Sign(t) == IF t # <<>> /\ Head(t) = "-" THEN -1 ELSE 1

\* int(str) accepts an optional sign followed by one or more digits.
is_int(t) ==
    /\ Unsigned(t) # <<>>
    /\ \A k \in 1..Len(Unsigned(t)) : IsDigit(Unsigned(t)[k])

RECURSIVE digits_value(_, _)
digits_value(t, acc) ==
    IF t = <<>> THEN acc ELSE digits_value(Tail(t), 10 * acc + DigitVal(Head(t)))

\* int(str): ZView.py:269-270
int(t) == Sign(t) * digits_value(Unsigned(t), 0)

FloatWords == {<<"i", "n", "f">>, <<"i", "n", "f", "i", "n", "i", "t", "y">>, <<"n", "a", "n">>}

\* float(str) accepts an optional sign followed by digits with at most one
\* decimal point and at least one digit, or by inf, infinity or nan in any
\* case.  (Exponent notation is not used by the inputs of this model.)
is_float(t) ==
    LET u == Unsigned(t) IN
    \/ lower(u) \in FloatWords
    \/ /\ \E k \in 1..Len(u) : IsDigit(u[k])
       /\ \A k \in 1..Len(u) : IsDigit(u[k]) \/ u[k] = "."
       /\ Cardinality({k \in 1..Len(u) : u[k] = "."}) <= 1

RECURSIVE drop_zeros(_, _)
drop_zeros(m, e) ==
    IF e > 0 /\ m % 10 = 0 THEN drop_zeros(m \div 10, e - 1) ELSE <<m, e>>

\* float(str): ZView.py:144-145.  The value is <<"num", m, e>> standing for
\* m / 10^e in lowest terms, so that float("5") = float("5.0"); inf and nan
\* are <<"inf", sign, 0>> and <<"nan", 0, 0>>.
float(t) ==
    LET u == Unsigned(t)
        dot == IF \E k \in 1..Len(u) : u[k] = "."
               THEN CHOOSE k \in 1..Len(u) : u[k] = "."
               ELSE Len(u) + 1
        ip == SubSeq(u, 1, dot - 1)
        fp == SubSeq(u, dot + 1, Len(u))
    IN IF lower(u) = <<"n", "a", "n">> THEN <<"nan", 0, 0>>
       ELSE IF lower(u) \in FloatWords THEN <<"inf", Sign(t), 0>>
       ELSE LET n == drop_zeros(digits_value(ip \o fp, 0), Len(fp))
            IN <<"num", Sign(t) * n[1], n[2]>>

\* ------------------------------------------------------------- environment
\* The file system the interpreter runs on: its directories, and the FITS
\* files that image.load_file() can read, each with the data it holds.
\* Any other path makes load_file() raise IOError.
Dirs == {<<"/", "d">>, <<"/", "h">>, <<"/", "d", "/", "s">>}
HOME == <<"/", "h">>
StartDir == <<"/", "d">>
ReadableFiles == {<<"/", "d", "/", "a">>, <<"/", "d", "/", "b">>, <<"/", "h", "/", "b">>}
FileData(path) ==
    IF path = <<"/", "d", "/", "a">> THEN "A" ELSE IF path = <<"/", "d", "/", "b">> THEN "B" ELSE "H"

\* Colour maps known to the display toolkit; gw.set_color_map() raises for
\* any other name.
ColorMaps == {<<"g", "r", "a", "y">>, <<"r", "a", "i", "n", "b", "o", "w", "3">>}
DefaultColorMap == <<"g", "r", "a", "y">>

\* Programs that subprocess.Popen can start, with their exit code and
\* what they write to stdout.
Executables == {<<"l", "s">>, <<"f", "a", "l", "s", "e">>}
ExitCode(prog) == IF prog = <<"l", "s">> THEN 0 ELSE 1
Stdout(prog) == IF prog = <<"l", "s">> THEN <<"a", " ", "b">> ELSE <<>>

\* ------------------------------------------------------------ exceptions
NoExc == [type |-> "", str |-> ""]
Exc(type, str) == [type |-> type, str |-> str]

\* --------------------------------------------------------------- the state
VARIABLES
    buffers,       \* ZView.buffers: buffer name -> AstroImage reference
    images,        \* heap of AstroImage objects: [data, path]
    viewers,       \* ZView.viewers: viewer name -> FitsViewer reference
    fitsviewers,   \* heap of FitsViewer objects and their gw / top widgets
    _view,         \* ZView._view: the current viewer (a reference) or None
    cwd,           \* ZView.cwd
    hist,          \* lines appended to GView.hist_w by the last event
    focus,         \* the widget that holds the keyboard focus
    raised,        \* the exception that escaped the last event, or NoExc
    pc,            \* main(): "startup", "running" or "crashed"
    argv,          \* main(): the file arguments
    argi,          \* main(): the loop index i
    last,          \* the last event: its kind and its input
    _plot,         \* ZView._plot: the kind of the plot object, or "None"
    _plot_w,       \* GView._plot_w: the title of the plot window, or "None"
    plot_windows,  \* the number of plot windows made so far
    figure,        \* what the figure of the plot shows
    calls,         \* the collaborators called by the last plot event, in order
    results,       \* what find_objects returned in the last plot event
    rpt,           \* what make_report returned in the last plot event
    env            \* the inputs of the last plot event

vars == <<buffers, images, viewers, fitsviewers, _view, cwd, hist, focus,
          raised, pc, argv, argi, last, _plot, _plot_w, plot_windows,
          figure, calls, results, rpt, env>>

\* No figure content, no report (an empty Bunch), no plot event
Blank == [kind |-> "", x |-> 0, y |-> 0]
NoReport == [fields |-> {}]
\* The header of an image and what the image holds around a position
FitsHeader(equinox, wcs_ok, geom_ok) ==
    [equinox |-> equinox, wcs_ok |-> wcs_ok, geom_ok |-> geom_ok,
     crval1 |-> 100, crval2 |-> 200, cdelt1 |-> -2, cdelt2 |-> 2]
Scene(peaks, objlist, header) ==
    [peaks |-> peaks, objlist |-> objlist, header |-> header]
NoScene == Scene(0, <<>>, FitsHeader(<<>>, TRUE, TRUE))
NoEnv == [key |-> "", x |-> 0, y |-> 0, scene |-> NoScene]

\* The interpreter's objects as one value `s` that the methods below take
\* and return; s.exc is the exception in flight and s.ret the value returned.
Self == [buffers |-> buffers, images |-> images, viewers |-> viewers,
         fitsviewers |-> fitsviewers, _view |-> _view, cwd |-> cwd,
         hist |-> <<>>, focus |-> focus, exc |-> NoExc, ret |-> None,
         _plot |-> _plot, _plot_w |-> _plot_w, plot_windows |-> plot_windows,
         figure |-> figure, calls |-> <<>>, results |-> <<>>,
         rpt |-> NoReport, env |-> NoEnv]

Msg(fmt, args) == [fmt |-> fmt, args |-> args]

\* GView.log / ZView.log: append one line to the history widget.
log(s, fmt, args) == [s EXCEPT !.hist = Append(@, Msg(fmt, args))]

raise(s, type, str) == [s EXCEPT !.exc = Exc(type, str)]

\* An empty Bunch / dict; item assignment d[k] = v, and del d[k]
EmptyDict == [x \in {} |-> None]
setitem(d, k, v) == [x \in DOMAIN d \cup {k} |-> IF x = k THEN v ELSE d[x]]
delitem(d, k) == [x \in DOMAIN d \ {k} |-> d[x]]

\* ------------------------------------------------------ GView (GView.py)
\* FitsViewer.__init__ and GView.make_viewer: a new viewer object with its
\* window shown at the given size; the new window takes the focus.
gv_make_viewer(s, name, width, height) ==
    LET viewer == [name |-> name, top |-> TRUE, image |-> None,
                   cuts |-> <<>>, cmap |-> DefaultColorMap,
                   inverted |-> FALSE, dist |-> <<"l", "i", "n", "e", "a", "r">>,
                   gw_name |-> <<>>,
                   width |-> width, height |-> height]
    IN [s EXCEPT !.fitsviewers = Append(@, viewer),
                 !.focus = "viewer",
                 !.ret = Len(s.fitsviewers) + 1]

\* GView.delete_viewer: viewer.top.delete()
gv_delete_viewer(s, viewer) ==
    [s EXCEPT !.fitsviewers[viewer].top = FALSE]

\* get_exitcode_stdout_stderr and GView.exec_shell.  shlex.split() is
\* str.split() on the inputs of this model, which hold no quote and no
\* backslash.  Popen raises IndexError for an empty argument list and
\* OSError for a program that does not exist.
exec_shell(s, cmd_str) ==
    LET args == split(cmd_str) IN
    IF args = <<>> THEN raise(s, "IndexError", "list index out of range")
    ELSE IF args[1] \notin Executables
    THEN raise(s, "OSError", "No such file or directory")
    ELSE LET out == Stdout(args[1])
             res == ExitCode(args[1])
             s1 == IF Len(out) > 0 THEN log(s, "%s", <<out>>) ELSE s
         IN IF res # 0
            THEN log(s1, "command terminated with error code %d", <<res>>)
            ELSE s1

\* ------------------------------------------------------ ZView (ZView.py)
\* make_viewer that always makes the new viewer the current one
mutant_make_viewer(s, name, width, height) ==
    LET w == IF width = <<>> THEN default_viewer_width ELSE width[1]
        h == IF height = <<>> THEN default_viewer_height ELSE height[1]
        s1 == gv_make_viewer(s, name, w, h)
        viewer == s1.ret
    IN [s1 EXCEPT !.fitsviewers[viewer].gw_name = name,
                  !.viewers = setitem(@, name, viewer),
                  !._view = viewer]

\* ZView.make_viewer(name, width=None, height=None); s.ret is the viewer.
\* A size is <<>> for None and <<n>> for the number n.
make_viewer(s, name, width, height) ==
    LET w == IF width = <<>> THEN default_viewer_width ELSE width[1]
        h == IF height = <<>> THEN default_viewer_height ELSE height[1]
        s1 == gv_make_viewer(s, name, w, h)
        viewer == s1.ret
        s2 == [s1 EXCEPT !.fitsviewers[viewer].gw_name = name,
                         !.viewers = setitem(@, name, viewer)]
    IN IF s2._view = None THEN [s2 EXCEPT !._view = viewer] ELSE s2

\* ZView.delete_viewer(name): self.viewers[name] raises KeyError for a
\* name that is not registered.
delete_viewer(s, name) ==
    IF name \notin DOMAIN s.viewers
    THEN raise(s, "KeyError", "viewer name")
    ELSE LET viewer == s.viewers[name]
         IN gv_delete_viewer([s EXCEPT !.viewers = delitem(@, name)], viewer)

\* FitsViewer.closed(w): the window's 'close' callback.
closed(s, v) ==
    delete_viewer(s, s.fitsviewers[v].name)

\* AstroImage.load_file(path): read the file into the image object.
load_file(s, image, path) ==
    IF path \notin ReadableFiles
    THEN raise(s, "IOError", "cannot read file")
    ELSE [s EXCEPT !.images[image] = [data |-> FileData(path), path |-> path]]

\* os.path.join(a, b)
path_join(a, b) ==
    IF startswith(b, <<"/">>) THEN b
    ELSE IF a # <<>> /\ a[Len(a)] = "/" THEN a \o b
    ELSE a \o <<"/">> \o b

\* ZView.cmd_pwd()
cmd_pwd(s) == log(s, "%s", <<s.cwd>>)

\* a cmd_cd that stays where it is when it has no argument
mutant_cmd_cd(s, args) ==
    LET path == IF Len(args) = 0 THEN s.cwd ELSE args[1]
        dir == path_join(s.cwd, path)
    IN IF dir \notin Dirs
       THEN raise(s, "OSError", "No such file or directory")
       ELSE cmd_pwd([s EXCEPT !.cwd = dir])

\* ZView.cmd_cd(*args): os.chdir raises OSError for a path that is no
\* directory.  Paths are joined, not normalised: the inputs of this model
\* hold no "." and no ".." component.
cmd_cd(s, args) ==
    LET path == IF Len(args) = 0 THEN HOME ELSE args[1]
        dir == path_join(s.cwd, path)
    IN IF dir \notin Dirs
       THEN raise(s, "OSError", "No such file or directory")
       ELSE cmd_pwd([s EXCEPT !.cwd = dir])

\* ZView.cmd_ls(*args)
cmd_ls(s, args) == exec_shell(s, join(<<" ">>, <<<<"l", "s">>>> \o args))

\* cmd_rd that makes a new image for a name that is in use
mutant_cmd_rd(s, bufname, path0, args) ==
    LET path == IF ~startswith(path0, <<"/">>)
                THEN path_join(s.cwd, path0) ELSE path0
        s1 == [s EXCEPT !.images = Append(@, [data |-> "", path |-> <<>>]),
                        !.buffers = setitem(@, bufname, Len(s.images) + 1)]
        image == s1.buffers[bufname]
        s2 == log(s1, "Reading file...(%s)", <<path>>)
        s3 == load_file(s2, image, path)
    IN IF s3.exc # NoExc THEN s3 ELSE log(s3, "File read", <<>>)

\* ZView.cmd_rd(bufname, path, *args)
cmd_rd(s, bufname, path0, args) ==
    LET path == IF ~startswith(path0, <<"/">>)
                THEN path_join(s.cwd, path0) ELSE path0
        inuse == bufname \in DOMAIN s.buffers
        s1 == IF inuse
              THEN log(s, "Buffer %s is in use. Will discard the previous data",
                       <<bufname>>)
              ELSE [s EXCEPT !.images = Append(@, [data |-> "", path |-> <<>>]),
                             !.buffers = setitem(@, bufname, Len(s.images) + 1)]
        image == s1.buffers[bufname]
        s2 == log(s1, "Reading file...(%s)", <<path>>)
        s3 == load_file(s2, image, path)
    IN IF s3.exc # NoExc THEN s3 ELSE log(s3, "File read", <<>>)

\* gw.set_image(image) of the viewer's CanvasView
set_image(s, gw, image) == [s EXCEPT !.fitsviewers[gw].image = image]

\* gw.cut_levels(locut, hicut)
cut_levels(s, gw, locut, hicut) ==
    [s EXCEPT !.fitsviewers[gw].cuts = <<locut, hicut>>]

\* gw.invert_cmap()
invert_cmap(s, gw) ==
    [s EXCEPT !.fitsviewers[gw].inverted = ~@]

\* gw.set_color_map(cm_name): raises for a name that is no colour map
set_color_map(s, gw, cm_name) ==
    IF cm_name \notin ColorMaps
    THEN raise(s, "ValueError", "No such color map name")
    ELSE [s EXCEPT !.fitsviewers[gw].cmap = cm_name,
                   !.fitsviewers[gw].inverted = FALSE]

\* The colour-map argument of cmd_v and cmd_cm (ZView.py:153-158, 199-204)
apply_cmap(s, gw, cm_name) ==
    IF cm_name = <<"i", "n", "v">> THEN invert_cmap(s, gw)
    ELSE set_color_map(s, gw, cm_name)

\* cmd_v that makes the first viewer before it looks the buffer up
mutant_cmd_v(s, bufname, args0) ==
    LET s1 == IF s._view = None
              THEN make_viewer(s, <<"g", "v", "i", "e", "w", "_", "0">>, <<>>, <<>>) ELSE s
    IN IF bufname \notin DOMAIN s.buffers
       THEN log(s1, "!! No such buffer: '%s'", <<bufname>>)
       ELSE set_image(s1, s1._view, s.buffers[bufname])

\* ZView.cmd_v(bufname, *args)
cmd_v(s, bufname, args0) ==
    IF bufname \notin DOMAIN s.buffers
    THEN log(s, "!! No such buffer: '%s'", <<bufname>>)
    ELSE
    LET image == s.buffers[bufname]
        s1 == IF s._view = None
              THEN make_viewer(s, <<"g", "v", "i", "e", "w", "_", "0">>, <<>>, <<>>) ELSE s
        gw == s1._view
        s2 == set_image(s1, gw, image)
        \* locut = float(args[0]); hicut = float(args[1]); args = args[2:]
        lo_ok == Len(args0) > 0 /\ is_float(args0[1])
        hi_there == Len(args0) > 1
        hi_ok == hi_there /\ is_float(args0[2])
        args == IF lo_ok /\ hi_ok THEN SubSeq(args0, 3, Len(args0)) ELSE args0
    IN  IF lo_ok /\ ~hi_there
        THEN raise(s2, "IndexError", "tuple index out of range")
        ELSE IF lo_ok /\ ~hi_ok
        \* the ValueError of float(args[1]) is passed over with locut set
        \* and hicut unbound
        THEN raise(s2, "UnboundLocalError",
                   "local variable 'hicut' referenced before assignment")
        ELSE LET s3 == IF lo_ok
                       THEN cut_levels(s2, gw, float(args0[1]), float(args0[2]))
                       ELSE s2
             IN IF Len(args) > 0 THEN apply_cmap(s3, gw, args[1]) ELSE s3

\* a cmd_tv that replaces nothing
mutant_replace_first(args, old, new) == args

\* list.index / item replacement of cmd_tv: the first occurrence of `old`,
\* if any, becomes `new`.
replace_first(args, old, new) ==
    IF \E k \in 1..Len(args) : args[k] = old
    THEN LET i == CHOOSE k \in 1..Len(args) :
                      args[k] = old /\ \A j \in 1..(k - 1) : args[j] # old
         IN [args EXCEPT ![i] = new]
    ELSE args

\* ZView.cmd_tv(bufname, *args)
cmd_tv(s, bufname, args) ==
    cmd_v(s, bufname,
          replace_first(replace_first(args, <<"b", "w">>, <<"g", "r", "a", "y">>), <<"j", "t">>, <<"r", "a", "i", "n", "b", "o", "w", "3">>))

\* ZView.cmd_cm(*args)
cmd_cm(s, args) ==
    IF s._view = None THEN log(s, "No viewers", <<>>)
    ELSE IF Len(args) = 0
    THEN log(s, "%s", <<s.fitsviewers[s._view].cmap>>)
    ELSE apply_cmap(s, s._view, args[1])

\* self.cmd_view(): ZView has no attribute cmd_view (ZView.py:273, 339)
cmd_view(s) ==
    raise(s, "AttributeError", "'ZView' object has no attribute 'cmd_view'")

\* cmd_mkv that leaves the current viewer to make_viewer
mutant_cmd_mkv(s, name, args) ==
    IF Len(args) > 0 /\ ~is_int(args[1])
    THEN raise(s, "ValueError", "invalid literal for int() with base 10")
    ELSE IF Len(args) = 1
    THEN raise(s, "IndexError", "tuple index out of range")
    ELSE IF Len(args) > 1 /\ ~is_int(args[2])
    THEN raise(s, "ValueError", "invalid literal for int() with base 10")
    ELSE LET width == IF Len(args) > 0 THEN int(args[1])
                      ELSE default_viewer_width
             height == IF Len(args) > 0 THEN int(args[2])
                       ELSE default_viewer_height
         IN cmd_view(make_viewer(s, name, <<width>>, <<height>>))

\* ZView.cmd_mkv(name, *args)
cmd_mkv(s, name, args) ==
    IF Len(args) > 0 /\ ~is_int(args[1])
    THEN raise(s, "ValueError", "invalid literal for int() with base 10")
    ELSE IF Len(args) = 1
    THEN raise(s, "IndexError", "tuple index out of range")
    ELSE IF Len(args) > 1 /\ ~is_int(args[2])
    THEN raise(s, "ValueError", "invalid literal for int() with base 10")
    ELSE LET width == IF Len(args) > 0 THEN int(args[1])
                      ELSE default_viewer_width
             height == IF Len(args) > 0 THEN int(args[2])
                       ELSE default_viewer_height
             s1 == make_viewer(s, name, <<width>>, <<height>>)
         IN cmd_view([s1 EXCEPT !._view = s1.ret])


\* cmd_lsv that marks no viewer as the current one
mutant_cmd_lsv(s) ==
    LET names == sorted(DOMAIN s.viewers)
        res == [k \in 1..Len(names) |-> <<" ">> \o names[k]]
    IN IF Len(names) = 0 THEN log(s, "No viewers", <<>>)
       ELSE log(s, "%s", <<join(<<"\n">>, res)>>)

\* ZView.cmd_lsv()
cmd_lsv(s) ==
    LET names == sorted(DOMAIN s.viewers)
        res == [k \in 1..Len(names) |->
                   IF s._view = s.viewers[names[k]]
                   THEN <<">">> \o names[k]
                   ELSE <<" ">> \o names[k]]
    IN IF Len(names) = 0 THEN log(s, "No viewers", <<>>)
       ELSE log(s, "%s", <<join(<<"\n">>, res)>>)

\* cmd_swv that forgets the current viewer when the name is missing
mutant_cmd_swv(s, name) ==
    IF name \notin DOMAIN s.viewers
    THEN log([s EXCEPT !._view = None], "No such viewer: '%s'", <<name>>)
    ELSE cmd_view([s EXCEPT !._view = s.viewers[name]])

\* ZView.cmd_swv(name)
cmd_swv(s, name) ==
    IF name \notin DOMAIN s.viewers
    THEN log(s, "No such viewer: '%s'", <<name>>)
    ELSE cmd_view([s EXCEPT !._view = s.viewers[name]])

\* image.width, image.height as "%dx%d": an image that holds no data is 0x0
ImageSize(data) ==
    IF data = "A" THEN <<"1", "0", "0", "x", "2", "0", "0">> ELSE IF data = "B" THEN <<"3", "0", "0", "x", "4", "0", "0">> ELSE <<"0", "x", "0">>

\* "%-10.10s": at most 10 characters, padded on the right to 10
ljust10(t) ==
    [k \in 1..10 |-> IF k <= Len(t) THEN t[k] ELSE " "]

\* "%13s": padded on the left to 13
rjust13(t) ==
    IF Len(t) >= 13 THEN t
    ELSE [k \in 1..(13 - Len(t)) |-> " "] \o t

\* ZView.get_buffer_info(name) formatted by cmd_lsb (ZView.py:355-357)
buffer_line(s, name) ==
    LET image == s.images[s.buffers[name]]
        path == IF image.path = <<>> THEN <<"N", "o", "n", "e">> ELSE image.path
    IN ljust10(name) \o <<" ", " ">> \o rjust13(ImageSize(image.data)) \o <<" ", " ">> \o path

\* ZView.cmd_lsb()
cmd_lsb(s) ==
    LET names == sorted(DOMAIN s.buffers)
        res == [k \in 1..Len(names) |-> buffer_line(s, names[k])]
    IN IF Len(names) = 0 THEN log(s, "No buffers", <<>>)
       ELSE log(s, "%s", <<join(<<"\n">>, res)>>)

\* cmd_rmb whose loop stops at the first name that is no buffer
RECURSIVE mutant_rmb_loop(_, _)
mutant_rmb_loop(s, args) ==
    IF args = <<>> THEN s
    ELSE LET name == Head(args)
         IN IF name \in DOMAIN s.buffers
            THEN mutant_rmb_loop([s EXCEPT !.buffers = delitem(@, name)],
                                 Tail(args))
            ELSE log(s, "No such buffer: '%s'", <<name>>)

\* ZView.cmd_rmb(*args)
RECURSIVE rmb_loop(_, _)
rmb_loop(s, args) ==
    IF args = <<>> THEN s
    ELSE LET name == Head(args)
         IN rmb_loop(IF name \in DOMAIN s.buffers
                     THEN [s EXCEPT !.buffers = delitem(@, name)]
                     ELSE log(s, "No such buffer: '%s'", <<name>>),
                     Tail(args))

cmd_rmb(s, args) == cmd_lsb(rmb_loop(s, args))

\* ZView.cmd_rm(*args)
cmd_rm(s, args) ==
    cmd_rmb(log(s, "warning: this command will be deprecated--use 'rmb'", <<>>),
            args)

\* Colour distributions known to the display toolkit
ColorDists == {<<"l", "i", "n", "e", "a", "r">>, <<"l", "o", "g">>}

\* ZView.cmd_dist(*args)
cmd_dist(s, args) ==
    IF s._view = None THEN log(s, "No viewers", <<>>)
    ELSE IF Len(args) = 0
    THEN log(s, "%s", <<s.fitsviewers[s._view].dist>>)
    ELSE IF args[1] \notin ColorDists
    THEN raise(s, "ValueError", "Invalid color algorithm")
    ELSE [s EXCEPT !.fitsviewers[s._view].dist = args[1]]

\* ZView.cmd_lscm()
cmd_lscm(s) == log(s, "%s", <<join(<<"\n">>, sorted(ColorMaps))>>)

\* The header of an image, as keyword/value pairs
Header(data) ==
    IF data = "" THEN <<>> ELSE <<<<<<"N", "A", "X", "I", "S">>, <<"2">>>>, <<<<"O", "B", "J", "E", "C", "T">>, <<"M", "3", "1">>>>>>

\* ZView.cmd_head(bufname, *args): one line per keyword
cmd_head(s, bufname, args) ==
    IF bufname \notin DOMAIN s.buffers
    THEN log(s, "No such buffer: '%s'", <<bufname>>)
    ELSE LET header == Header(s.images[s.buffers[bufname]].data)
             value(kwd) ==
                 IF \E k \in 1..Len(header) : header[k][1] = kwd
                 THEN header[CHOOSE k \in 1..Len(header) : header[k][1] = kwd][2]
                 ELSE <<"-", "-", " ", "N", "O", "T", " ", "F", "O", "U", "N", "D", " ", "I", "N", " ", "H", "E", "A", "D", "E", "R", " ", "-", "-">>
             kwds == IF Len(args) > 0 THEN args
                     ELSE [k \in 1..Len(header) |-> header[k][1]]
             res == [k \in 1..Len(kwds) |-> kwds[k] \o <<" ", " ">> \o value(kwds[k])]
         IN log(s, "%s", <<join(<<"\n">>, res)>>)

\* The commands of the interpreter: the names n for which ZView has a
\* method cmd_<n>, with the least and the greatest number of arguments the
\* method takes (-1: any number).
CmdTable ==
    { <<<<"c", "d">>, 0, -1>>, <<<<"l", "s">>, 0, -1>>, <<<<"p", "w", "d">>, 0, 0>>,
      <<<<"r", "d">>, 2, -1>>, <<<<"v">>, 1, -1>>, <<<<"t", "v">>, 1, -1>>,
      <<<<"c", "m">>, 0, -1>>, <<<<"d", "i", "s", "t">>, 0, -1>>, <<<<"h", "e", "l", "p">>, 0, -1>>,
      <<<<"m", "k", "v">>, 1, -1>>, <<<<"l", "s", "v">>, 0, 0>>, <<<<"l", "s", "c", "m">>, 0, 0>>,
      <<<<"h", "e", "a", "d">>, 1, -1>>, <<<<"s", "w", "v">>, 1, 1>>, <<<<"l", "s", "b">>, 0, 0>>,
      <<<<"r", "m", "b">>, 0, -1>>, <<<<"r", "m">>, 0, -1>> }

CmdNames == {c[1] : c \in CmdTable}

\* hasattr(self.zv, "cmd_" + name)
has_cmd(name) == name \in CmdNames

\* ZView.cmd_help(*args)
cmd_help(s, args) ==
    IF Len(args) > 0
    THEN LET cmdname == lower(args[1])
         IN IF has_cmd(cmdname)
            THEN log(s, "%s: %s", <<cmdname, <<"_", "_", "d", "o", "c", "_", "_">>>>)
            ELSE log(s, "No such command '%s'; type help for general help.",
                     <<cmdname>>)
    ELSE log(s, "%s", <<join(<<"\n">>, sorted(CmdNames))>>)

\* method(*args): Python raises TypeError when the number of arguments
\* does not fit the method's signature.
call(s, name, args) ==
    LET sig == CHOOSE c \in CmdTable : c[1] = name IN
    IF Len(args) < sig[2] \/ (sig[3] >= 0 /\ Len(args) > sig[3])
    THEN raise(s, "TypeError", "wrong number of arguments")
    ELSE CASE name = <<"c", "d">> -> cmd_cd(s, args)
           [] name = <<"l", "s">> -> cmd_ls(s, args)
           [] name = <<"p", "w", "d">> -> cmd_pwd(s)
           [] name = <<"r", "d">> -> cmd_rd(s, args[1], args[2], SubSeq(args, 3, Len(args)))
           [] name = <<"v">> -> cmd_v(s, args[1], Tail(args))
           [] name = <<"t", "v">> -> cmd_tv(s, args[1], Tail(args))
           [] name = <<"c", "m">> -> cmd_cm(s, args)
           [] name = <<"d", "i", "s", "t">> -> cmd_dist(s, args)
           [] name = <<"h", "e", "l", "p">> -> cmd_help(s, args)
           [] name = <<"m", "k", "v">> -> cmd_mkv(s, args[1], Tail(args))
           [] name = <<"l", "s", "v">> -> cmd_lsv(s)
           [] name = <<"l", "s", "c", "m">> -> cmd_lscm(s)
           [] name = <<"h", "e", "a", "d">> -> cmd_head(s, args[1], Tail(args))
           [] name = <<"s", "w", "v">> -> cmd_swv(s, args[1])
           [] name = <<"l", "s", "b">> -> cmd_lsb(s)
           [] name = <<"r", "m", "b">> -> cmd_rmb(s, args)
           [] name = <<"r", "m">> -> cmd_rm(s, args)

\* exec_cmd without its `except AttributeError` clause
mutant_no_such_command(s, cmd) ==
    raise(s, "AttributeError", "'ZView' object has no attribute")

\* GView.exec_cmd, the handler of AttributeError (GView.py:268-270)
no_such_command(s, cmd) == log(s, "!! No such command: '%s'", <<cmd>>)

\* exec_cmd whose `except Exception` clause logs and raises again
mutant_run_method(r, text) ==
    IF r.exc # NoExc
    THEN log(r, "!! Error executing '%s': %s", <<text, r.exc.str>>)
    ELSE [r EXCEPT !.focus = "cmd_w"]

\* GView.exec_cmd, the call of the method (GView.py:272-283): r is the
\* state the method left, with the exception it raised, if any.
run_method(r, text) ==
    IF r.exc # NoExc
    THEN log([r EXCEPT !.exc = NoExc], "!! Error executing '%s': %s",
             <<text, r.exc.str>>)
    ELSE [r EXCEPT !.focus = "cmd_w"]

\* GView.exec_cmd(text)
exec_cmd(s, text0) ==
    LET text == strip(text0)
        s1 == log(s, "gview> %s", <<text>>)
    IN IF startswith(text, <<"/">>)
       THEN exec_shell(s1, Tail(text))
       ELSE LET args0 == split(text) IN
            \* cmd, args = args[0], args[1:]
            IF args0 = <<>>
            THEN raise(s1, "IndexError", "list index out of range")
            ELSE LET cmd == args0[1]
                     args == Tail(args0)
                 IN IF ~has_cmd(lower(cmd))
                    THEN no_such_command(s1, cmd)
                    ELSE run_method(call(s1, lower(cmd), args), text)

\* FitsViewer.load_file(filepath): a new image, loaded and displayed
fv_load_file(s, viewer, filepath) ==
    LET s1 == [s EXCEPT !.images = Append(@, [data |-> "", path |-> <<>>])]
        image == Len(s1.images)
        s2 == load_file(s1, image, filepath)
    IN IF s2.exc # NoExc THEN s2 ELSE set_image(s2, viewer, image)

\* main(): one turn of the loop over the file arguments (main.py:45-49)
main_loop(s, i, args) ==
    LET s1 == make_viewer(s, <<"g", "v", "i", "e", "w", "_">> \o <<Digits[i + 1]>>, <<>>, <<>>)
    IN fv_load_file(s1, s1.ret, args[i + 1])

\* ------------------------------------------ object finding (ZView.py:403-606)
\* The peak finding parameters and selection criteria of ZView.__init__.
\* Widths are in tenths of a pixel, ellipticity and the edge width in
\* hundredths, positions in whole pixels.
radius == 10
min_fwhm == 20
max_fwhm == 500
min_ellipse == 50
edgew == 1
pixel_coords_offset == 0
contour_radius == 10

\* The size of the image a viewer shows
ImageWidth == 40
ImageHeight == 40

\* What the image holds around the position of a key press: the number of
\* peaks iqcalc.find_bright_peaks finds in the cutout, the objects that
\* iqcalc.evaluate_peaks makes of them (positions relative to the cutout),
\* and the header: the text of its EQUINOX card (<<>> when it has none),
\* whether the WCS can convert a position, whether the pixel scale can be
\* read, and the scale.
Candidate(x, y, objx, objy, fwhm, fwhm_x, fwhm_y, elipse, brightness) ==
    [x |-> x, y |-> y, objx |-> objx, objy |-> objy, fwhm |-> fwhm,
     fwhm_x |-> fwhm_x, fwhm_y |-> fwhm_y, elipse |-> elipse,
     background |-> 5, skylevel |-> 7, brightness |-> brightness]
Faint == Candidate(10, 10, 11, 9, 35, 34, 36, 90, 100)
Bright == Candidate(5, 15, 6, 16, 60, 58, 62, 80, 300)
Narrow == Candidate(8, 8, 8, 8, 20, 20, 20, 90, 500)
Wide == Candidate(8, 8, 8, 8, 600, 600, 600, 90, 500)
Long == Candidate(8, 8, 8, 8, 40, 40, 40, 50, 500)
AtEdge == Candidate(0, 8, 0, 8, 40, 40, 40, 90, 500)
Scenes ==
    { Scene(0, <<>>, FitsHeader(<<>>, TRUE, TRUE)),
      Scene(2, <<>>, FitsHeader(<<>>, TRUE, TRUE)),
      Scene(4, <<Narrow, Wide, Long, AtEdge>>, FitsHeader(<<>>, TRUE, TRUE)),
      Scene(3, <<Faint, Narrow, Bright>>, FitsHeader(<<"2", "0", "0", "0", ".", "0">>, TRUE, TRUE)),
      Scene(1, <<Faint>>, FitsHeader(<<>>, FALSE, TRUE)),
      Scene(1, <<Faint>>, FitsHeader(<<"2", "0", "0", "0">>, TRUE, FALSE)),
      Scene(1, <<Faint>>, FitsHeader(<<"1", "9", "5", "0", ".", "0">>, FALSE, FALSE)),
      Scene(1, <<Faint>>, FitsHeader(<<"J", "2", "0", "0", "0">>, TRUE, TRUE)) }
\* The positions of the pointer at a key press: inside the image, near its
\* left edge, and near its right edge.
Positions == { <<15, 15>>, <<3, 20>>, <<38, 22>> }

called(s, name) == [s EXCEPT !.calls = Append(@, name)]

\* BaseImage.cutout_radius(x, y, radius): the cutout of side
\* 2*radius + 1 around (x, y), moved to lie within the image; the value is
\* its corners <<x1, y1, x2, y2>>.
cutout_radius(x, y, r) ==
    LET d == 2 * r + 1
        x1 == IF x - r < 0 THEN 0
              ELSE IF x + r + 1 >= ImageWidth THEN ImageWidth - d ELSE x - r
        y1 == IF y - r < 0 THEN 0
              ELSE IF y + r + 1 >= ImageHeight THEN ImageHeight - d ELSE y - r
    IN <<x1, y1, x1 + d, y1 + d>>

\* IQCalc.find_bright_peaks and IQCalc.evaluate_peaks
find_bright_peaks(scene) == scene.peaks
evaluate_peaks(scene) == scene.objlist

\* IQCalc.objlist_select: the objects within the bounds (all of them
\* strict), the brightest first.
Selects(obj, width, height, minfwhm, maxfwhm, minelipse, edge) ==
    /\ minfwhm < obj.fwhm /\ obj.fwhm < maxfwhm
    /\ minelipse < obj.elipse
    /\ width * edge < 100 * obj.x /\ height * edge < 100 * obj.y
    /\ width * (100 - edge) > 100 * obj.x
    /\ height * (100 - edge) > 100 * obj.y

RECURSIVE by_brightness(_)
by_brightness(objs) ==
    IF objs = <<>> THEN <<>>
    ELSE LET k == CHOOSE k \in 1..Len(objs) :
                    /\ \A j \in 1..Len(objs) :
                           objs[j].brightness <= objs[k].brightness
                    /\ \A j \in 1..(k - 1) :
                           objs[j].brightness < objs[k].brightness
         IN <<objs[k]>> \o
            by_brightness(SubSeq(objs, 1, k - 1) \o SubSeq(objs, k + 1, Len(objs)))

objlist_select(objlist, width, height, minfwhm, maxfwhm, minelipse, edge) ==
    by_brightness(SelectSeq(objlist,
        LAMBDA obj : Selects(obj, width, height, minfwhm, maxfwhm,
                             minelipse, edge)))

\* a loop that moves only the positions of the peaks
mutant_add_offsets(objs, x1, y1) ==
    [k \in 1..Len(objs) |->
        [objs[k] EXCEPT !.x = @ + x1, !.y = @ + y1]]

\* find_objects, the loop `for qs in results` (ZView.py:545-549)
add_offsets(objs, x1, y1) ==
    [k \in 1..Len(objs) |->
        [objs[k] EXCEPT !.x = @ + x1, !.y = @ + y1,
                           !.objx = @ + x1, !.objy = @ + y1]]

\* find_objects that goes on without peaks
mutant_check_peaks(s, num_peaks) == s

\* find_objects, `if num_peaks == 0` (ZView.py:520-522)
check_peaks(s, num_peaks) ==
    IF num_peaks = 0
    THEN raise(s, "Exception", "Cannot find bright peaks")
    ELSE s

\* find_objects that returns the candidates without selecting
mutant_select(objlist, width, height) == objlist

\* find_objects, the call of objlist_select (ZView.py:535-540)
select(objlist, width, height) ==
    objlist_select(objlist, width, height, min_fwhm, max_fwhm,
                   min_ellipse, edgew)

\* ZView.find_objects(viewer, x, y): s.ret is the list it returns.  The
\* exception of a stage is logged to the logger and raised again.
find_objects(s, viewer, x, y) ==
    LET image == s.fitsviewers[viewer].image
        scene == s.env.scene
    IN IF image = None
       THEN raise(s, "AttributeError",
                  "'NoneType' object has no attribute 'cutout_radius'")
       ELSE
       LET c == cutout_radius(x, y, radius)
           s1 == called(called(s, "cutout_radius"), "find_bright_peaks")
           s2 == check_peaks(s1, find_bright_peaks(scene))
       IN IF s2.exc # NoExc THEN s2
          ELSE
          LET s3 == called(s2, "evaluate_peaks")
              objlist == evaluate_peaks(scene)
          IN IF Len(objlist) = 0
             THEN raise(s3, "Exception",
                        "Error evaluating bright peaks: no candidates found")
             ELSE
             LET s4 == called(s3, "objlist_select")
                 selected == select(objlist, c[3] - c[1], c[4] - c[2])
             IN IF Len(selected) = 0
                THEN raise(s4, "Exception",
                           "No object matches selection criteria")
                ELSE [called(s4, "add_offsets") EXCEPT
                          !.ret = add_offsets(selected, c[1], c[2])]

\* ------------------------------------------------ the report (ZView.py:558)
\* image.get_keyword('EQUINOX', 2000.0)
get_keyword(header) ==
    IF header.equinox = <<>> THEN <<"2", "0", "0", "0", ".", "0">> ELSE header.equinox

\* image.pixtoradec and wcs.deg2fmt
pixtoradec(header, x, y) ==
    <<header.crval1 + x * header.cdelt1, header.crval2 + y * header.cdelt2>>
deg2fmt(deg) == [text |-> "deg2fmt", deg |-> deg]
BadWCS == [text |-> "BAD WCS", deg |-> 0]

\* IQCalc.starsize(fwhm_x, cdelt1, fwhm_y, cdelt2)
abs(n) == IF n < 0 THEN -n ELSE n
starsize(fwhm_x, cdelt1, fwhm_y, cdelt2) ==
    (fwhm_x * abs(cdelt1) + fwhm_y * abs(cdelt2)) \div 2

ReportFields ==
    {"x", "y", "ra_deg", "dec_deg", "ra_txt", "dec_txt", "equinox", "fwhm",
     "fwhm_x", "fwhm_y", "ellipse", "background", "skylevel", "brightness",
     "starsize", "time_local", "time_ut"}

\* a make_report whose handler of a WCS failure gives up the report
mutant_sky_position(header, x, y) ==
    IF header.wcs_ok
    THEN LET rd == pixtoradec(header, x, y)
         IN [ra_deg |-> rd[1], dec_deg |-> rd[2],
             ra_txt |-> deg2fmt(rd[1]), dec_txt |-> deg2fmt(rd[2])]
    ELSE [ra_deg |-> 0, dec_deg |-> 0,
          ra_txt |-> deg2fmt(0), dec_txt |-> deg2fmt(0)]

\* make_report, the sky position and its fallback (ZView.py:564-571)
sky_position(header, x, y) ==
    IF header.wcs_ok
    THEN LET rd == pixtoradec(header, x, y)
         IN [ra_deg |-> rd[1], dec_deg |-> rd[2],
             ra_txt |-> deg2fmt(rd[1]), dec_txt |-> deg2fmt(rd[2])]
    ELSE [ra_deg |-> 0, dec_deg |-> 0, ra_txt |-> BadWCS, dec_txt |-> BadWCS]

\* make_report, the star size and its fallback (ZView.py:573-582)
star_size(header, qs) ==
    IF header.geom_ok
    THEN starsize(qs.fwhm_x, header.cdelt1, qs.fwhm_y, header.cdelt2)
    ELSE 0

\* ZView.make_report(image, qs): s.ret is the Bunch it returns, which has
\* no field when the outer handler caught an exception.
make_report(s, image, qs) ==
    LET header == s.env.scene.header
        s1 == called(s, "make_report")
        x == qs.objx
        y == qs.objy
    IN IF ~is_float(get_keyword(header))
       THEN [s1 EXCEPT !.ret = NoReport]
       ELSE LET sky == sky_position(header, x, y)
            IN [s1 EXCEPT !.ret =
                 [fields |-> ReportFields,
                  x |-> x + pixel_coords_offset,
                  y |-> y + pixel_coords_offset,
                  ra_deg |-> sky.ra_deg, dec_deg |-> sky.dec_deg,
                  ra_txt |-> sky.ra_txt, dec_txt |-> sky.dec_txt,
                  equinox |-> float(get_keyword(header)),
                  fwhm |-> qs.fwhm,
                  fwhm_x |-> qs.fwhm_x, fwhm_y |-> qs.fwhm_y,
                  ellipse |-> qs.elipse, background |-> qs.background,
                  skylevel |-> qs.skylevel, brightness |-> qs.brightness,
                  starsize |-> star_size(header, qs),
                  time_local |-> "localtime", time_ut |-> "gmtime"]]

\* ------------------------------------------------- plots (ZView.py:403-506)
\* ZView.initialize_plot and GView.initialize_plot_gui: a Plot with a new
\* figure, shown in a new window titled "Plots"
initialize_plot(s) ==
    [s EXCEPT !._plot = "Plot", !.figure = Blank,
              !._plot_w = "Plots", !.plot_windows = @ + 1]

\* plots that open a window of their own each time
mutant_make_plot(s, kind) ==
    [initialize_plot(s) EXCEPT !.figure = Blank, !._plot = kind]

\* make_contour_plot, make_gaussians_plot and make_radial_plot: the figure
\* of the current plot is cleared and given to a plot of the new kind
make_plot(s, kind) ==
    LET s1 == IF s._plot = "None" THEN initialize_plot(s) ELSE s
    IN [s1 EXCEPT !.figure = Blank, !._plot = kind]
make_contour_plot(s) == make_plot(s, "ContourPlot")
make_gaussians_plot(s) == make_plot(s, "FWHMPlot")
make_radial_plot(s) == make_plot(s, "RadialPlot")

\* self._plot.plot_contours / plot_fwhm / plot_radial(x, y, radius, image)
draw(s, kind, x, y) == [s EXCEPT !.figure = [kind |-> kind, x |-> x, y |-> y]]

\* self.log(text, w_time=True)
log_w_time(s, text) == log(s, "%H:%M:%S: %s", <<text>>)

\* a do_contour_plot that returns when no object is found
mutant_do_contour_plot(s, viewer, data_x, data_y) ==
    LET r == find_objects(log_w_time(s, "ZVIEW> (contour plot)"),
                          viewer, data_x, data_y)
    IN IF r.exc # NoExc
       THEN log([r EXCEPT !.exc = NoExc, !.ret = None], "No objects found", <<>>)
       ELSE draw(make_contour_plot([r EXCEPT !.results = r.ret]),
                 "contours", r.ret[1].objx, r.ret[1].objy)

\* ZView.do_contour_plot(viewer, event, data_x, data_y)
do_contour_plot(s, viewer, data_x, data_y) ==
    LET r == find_objects(log_w_time(s, "ZVIEW> (contour plot)"),
                          viewer, data_x, data_y)
        found == r.exc = NoExc
        s1 == IF found THEN [r EXCEPT !.results = r.ret]
              ELSE log([r EXCEPT !.exc = NoExc], "No objects found", <<>>)
        x == IF found THEN r.ret[1].objx ELSE data_x
        y == IF found THEN r.ret[1].objy ELSE data_y
    IN [draw(make_contour_plot(s1), "contours", x, y) EXCEPT !.ret = TRUE]

\* ZView.do_gaussians_plot(viewer, event, data_x, data_y)
do_gaussians_plot(s, viewer, data_x, data_y) ==
    LET r == find_objects(log_w_time(s, "ZVIEW> (gaussians plot)"),
                          viewer, data_x, data_y)
    IN IF r.exc # NoExc
       THEN log([r EXCEPT !.exc = NoExc, !.ret = None], "No objects found", <<>>)
       ELSE LET qs == r.ret[1]
                s1 == make_gaussians_plot([r EXCEPT !.results = r.ret])
            IN [draw(s1, "fwhm", qs.objx, qs.objy) EXCEPT !.ret = TRUE]

\* ZView.do_radial_plot(viewer, event, data_x, data_y).  Reading a field
\* that a Bunch does not have raises.
do_radial_plot(s, viewer, data_x, data_y) ==
    LET r == find_objects(log_w_time(s, "ZVIEW> (radial plot)"),
                          viewer, data_x, data_y)
    IN IF r.exc # NoExc
       THEN log([r EXCEPT !.exc = NoExc, !.ret = None], "No objects found", <<>>)
       ELSE LET qs == r.ret[1]
                s1 == make_radial_plot([r EXCEPT !.results = r.ret])
                s2 == draw(s1, "radial", qs.objx, qs.objy)
                s3 == make_report(s2, s.fitsviewers[viewer].image, qs)
                s4 == [s3 EXCEPT !.rpt = s3.ret]
            IN IF "starsize" \notin s4.rpt.fields
               THEN raise(s4, "AttributeError", "starsize")
               ELSE [log(s4, "seeing size %5.2f", <<s4.rpt.starsize>>)
                       EXCEPT !.ret = TRUE]

\* The keys of the zview mode, with the function and the window title
\* that FitsViewer.__init__ binds to each
Keys == {"p", "e", "g"}
Title(key) ==
    CASE key = "p" -> "Radial Profile"
      [] key = "e" -> "Contours"
      [] key = "g" -> "FWHM"
fn(s, key, viewer, data_x, data_y) ==
    CASE key = "p" -> do_radial_plot(s, viewer, data_x, data_y)
      [] key = "e" -> do_contour_plot(s, viewer, data_x, data_y)
      [] key = "g" -> do_gaussians_plot(s, viewer, data_x, data_y)

\* GView.plot_cmd_cb(viewer, event, data_x, data_y, fn, title, viewer_w)
plot_cmd_cb(s, viewer, data_x, data_y, key) ==
    LET r == fn(s, key, viewer, data_x, data_y)
        r1 == IF r.exc # NoExc THEN r
              ELSE IF r._plot_w = "None"
              THEN raise(r, "AttributeError",
                         "'NoneType' object has no attribute 'set_title'")
              ELSE [r EXCEPT !._plot_w = Title(key)]
    IN [r1 EXCEPT !.focus = "viewer_w"]

\* ------------------------------------------------------------- the inputs
\* The command lines typed into the command bar, in three sessions: one
\* that exercises the dispatcher, one the buffers and what `v` displays,
\* one the viewer registry.
LinesCmd ==
    { <<>>, <<" ", "\t", " ">>, <<"/">>, <<"/", "n", "o", "s", "u", "c", "h", " ", "-", "l">>, <<"/", "l", "s">>,
      <<"f", "o", "o", " ", "1">>, <<"V", "i", "e", "w">>,
      <<"r", "d", " ", "1", " ", "a">>, <<"r", "d", " ", "1", " ", "x">>, <<"r", "d", " ", "1">>, <<"v", " ", "1">>, <<"v", " ", "1", " ", "5">>,
      <<"s", "w", "v", " ", "g", "v", "i", "e", "w", "_", "0">>, <<"s", "w", "v", " ", "z", "z">> }

LinesBuf ==
    { <<"r", "d", " ", "1", " ", "a">>, <<" ", " ", "r", "d", " ", "1", " ", "/", "d", "/", "b", " ">>, <<"r", "d", " ", "2", " ", "b">>, <<"r", "d", " ", "2", " ", "x">>,
      <<"v", " ", "1">>, <<"v", " ", "2", " ", "0", " ", "9", ".", "5", " ", "r", "a", "i", "n", "b", "o", "w", "3">>, <<"t", "v", " ", "1", " ", "i", "n", "v">>,
      <<"v", " ", "9">>, <<"v", " ", "9", " ", "0", " ", "9", ".", "5", " ", "r", "a", "i", "n", "b", "o", "w", "3">>, <<"t", "v", " ", "9", " ", "b", "w">>,
      <<"l", "s", "v">>, <<"l", "s", "b">>, <<"r", "m", "b", " ", "1">> }

LinesView ==
    { <<"r", "d", " ", "1", " ", "a">>, <<"v", " ", "1">>,
      <<"m", "k", "v", " ", "a">>, <<"m", "k", "v", " ", "a", " ", "6", "4", "0", " ", "4", "8", "0">>, <<"m", "k", "v", " ", "b", " ", "6", "4", "0">>, <<"m", "k", "v", " ", "b", " ", "6", "4", "0", " ", "4", ".", "5">>, <<"m", "k", "v", " ", "b", " ", "x", " ", "4", "8", "0">>,
      <<"s", "w", "v", " ", "a">>, <<"s", "w", "v", " ", "g", "v", "i", "e", "w", "_", "0">>, <<"s", "w", "v", " ", "z", "z">>, <<"l", "s", "v">> }

\* A session that removes and lists buffers and lists viewers.
LinesList ==
    { <<"r", "d", " ", "1", " ", "a">>, <<"r", "d", " ", "2", " ", "b">>, <<"r", "d", " ", "2", " ", "x">>, <<"m", "k", "v", " ", "a">>,
      <<"l", "s", "b">>, <<"l", "s", "v">>,
      <<"r", "m", "b", " ", "1">>, <<"r", "m", "b", " ", "1", " ", "9", " ", "1", " ", "2">>, <<"r", "m", " ", "2", " ", "2">>, <<"r", "m", "b">> }

\* Every spelling of a word in upper and lower case letters
RECURSIVE Variants(_)
Variants(w) ==
    IF w = <<>> THEN {<<>>}
    ELSE {<<c>> \o v : c \in {lower_char(w[1]), upper_char(w[1])},
                       v \in Variants(Tail(w))}

\* A session that types `rd` with arguments and `lsb` in every case, other
\* lines whose arguments differ in case, and the word `read`.
LinesCase ==
    {v \o <<" ", "1", " ", "a">> : v \in Variants(<<"r", "d">>)} \cup Variants(<<"l", "s", "b">>) \cup
    { <<"r", "D", " ", "B", " ", "b">>, <<"R", "d", " ", "1", " ", "x">>, <<"r", "d", " ", "b", " ", "a">>, <<"P", "w", "d", " ", "x">>,
      <<"r", "e", "a", "d", " ", "1", " ", "/", "d", "/", "a">>, <<"R", "E", "A", "D", " ", "2", " ", "b">> }

\* A session that displays a buffer with `tv` and `v`, with cut levels,
\* colour maps and the ZVIEW names of colour maps in several positions.
LinesTv ==
    { <<"r", "d", " ", "1", " ", "a">>,
      <<"t", "v", " ", "1">>, <<"t", "v", " ", "1", " ", "b", "w">>, <<"t", "v", " ", "1", " ", "j", "t">>, <<"t", "v", " ", "1", " ", "0", " ", "9", ".", "5", " ", "b", "w">>, <<"t", "v", " ", "1", " ", "i", "n", "v">>,
      <<"t", "v", " ", "1", " ", "j", "t", " ", "b", "w">>, <<"t", "v", " ", "1", " ", "b", "w", " ", "b", "w">>, <<"t", "v", " ", "1", " ", "5", " ", "b", "w">>, <<"t", "v", " ", "9", " ", "b", "w">>, <<"t", "v", " ", "1", " ", "z", "z">>,
      <<"v", " ", "1", " ", "5", " ", "g", "r", "a", "y">>, <<"v", " ", "1", " ", "5">>, <<"v", " ", "1", " ", "g", "r", "a", "y", " ", "5">>, <<"v", " ", "1", " ", "0", " ", "9", ".", "5", " ", "i", "n", "v">> }

\* A session that changes the working directory and reads files by
\* relative and absolute paths.
LinesCd ==
    { <<"c", "d">>, <<"c", "d", " ", "/", "d">>, <<"c", "d", " ", "s">>, <<"c", "d", " ", "/", "n", "o", "s", "u", "c", "h">>, <<"c", "d", " ", "x">>, <<"p", "w", "d">>,
      <<"r", "d", " ", "1", " ", "a">>, <<"r", "d", " ", "1", " ", "b">>, <<"r", "d", " ", "1", " ", "/", "d", "/", "a">>, <<"r", "d", " ", "1", " ", "/", "h", "/", "b">> }

\* The file arguments gview may be started with.
ArgLists == { <<>>, <<<<"/", "d", "/", "a">>>>, <<<<"/", "d", "/", "a">>, <<"/", "d", "/", "b">>>>, <<<<"/", "d", "/", "x">>>> }

\* ------------------------------------------------------------ the machine
Event(op, text, viewer) == [op |-> op, text |-> text, viewer |-> viewer]

Init ==
    /\ buffers = EmptyDict
    /\ images = <<>>
    /\ viewers = EmptyDict
    /\ fitsviewers = <<>>
    /\ _view = None
    /\ cwd = StartDir
    /\ hist = <<>>
    /\ focus = "cmd_w"
    /\ raised = NoExc
    /\ pc = "startup"
    /\ argv \in ArgLists
    /\ argi = 0
    /\ last = Event("init", <<>>, None)
    /\ _plot = "None"
    /\ _plot_w = "None"
    /\ plot_windows = 0
    /\ figure = Blank
    /\ calls = <<>>
    /\ results = <<>>
    /\ rpt = NoReport
    /\ env = NoEnv

\* The objects after a method has run: r is the value the method returned.
Becomes(r) ==
    /\ buffers' = r.buffers
    /\ images' = r.images
    /\ viewers' = r.viewers
    /\ fitsviewers' = r.fitsviewers
    /\ _view' = r._view
    /\ cwd' = r.cwd
    /\ hist' = r.hist
    /\ focus' = r.focus
    /\ raised' = r.exc
    /\ _plot' = r._plot
    /\ _plot_w' = r._plot_w
    /\ plot_windows' = r.plot_windows
    /\ figure' = r.figure
    /\ calls' = r.calls
    /\ results' = r.results
    /\ rpt' = r.rpt
    /\ env' = r.env

WithinBounds(r) ==
    /\ Len(r.fitsviewers) <= MaxViewers
    /\ Len(r.images) <= MaxImages

\* main(): the loop that makes one viewer per file argument.  An exception
\* of load_file() ends the program.
MainLoop ==
    /\ pc = "startup"
    /\ argi < Len(argv)
    /\ LET r == main_loop(Self, argi, argv)
       IN /\ Becomes(r)
          /\ pc' = IF r.exc # NoExc THEN "crashed" ELSE "startup"
    /\ argi' = argi + 1
    /\ last' = Event("main_loop", argv[argi + 1], None)
    /\ UNCHANGED argv

\* main(): app.start(), the event loop begins.
AppStart ==
    /\ pc = "startup"
    /\ argi = Len(argv)
    /\ pc' = "running"
    /\ last' = Event("app_start", <<>>, None)
    /\ UNCHANGED <<buffers, images, viewers, fitsviewers, _view, cwd, hist,
                   focus, raised, argv, argi, _plot, _plot_w, plot_windows,
                   figure, calls, results, rpt, env>>

\* The 'activated' callback of the command bar: GView.exec_cmd_cb.
ExecCmdCb(Lines) ==
    /\ pc = "running"
    /\ \E text \in Lines :
         LET r == exec_cmd(Self, text)
         IN /\ WithinBounds(r)
            /\ Becomes(r)
            /\ last' = Event("exec_cmd", text, None)
    /\ UNCHANGED <<pc, argv, argi>>

\* The 'close' callback of a viewer's window: FitsViewer.closed.
Closed ==
    /\ pc = "running"
    /\ \E v \in 1..Len(fitsviewers) :
         /\ fitsviewers[v].top
         /\ Becomes(closed(Self, v))
         /\ last' = Event("closed", <<>>, v)
    /\ UNCHANGED <<pc, argv, argi>>

NextCmd == MainLoop \/ AppStart \/ ExecCmdCb(LinesCmd) \/ Closed
NextBuf == MainLoop \/ AppStart \/ ExecCmdCb(LinesBuf) \/ Closed
NextView == MainLoop \/ AppStart \/ ExecCmdCb(LinesView) \/ Closed

NextList == MainLoop \/ AppStart \/ ExecCmdCb(LinesList) \/ Closed
\* A key of the zview mode pressed in the window of a viewer that shows an
\* image: the callback that FitsViewer.__init__ bound to the key.
PlotCmdCb ==
    /\ pc = "running"
    /\ \E v \in 1..Len(fitsviewers), key \in Keys, pos \in Positions,
          scene \in Scenes :
         /\ fitsviewers[v].top
         /\ fitsviewers[v].image # None
         /\ LET s == [Self EXCEPT !.env = [key |-> key, x |-> pos[1],
                                           y |-> pos[2], scene |-> scene]]
            IN Becomes(plot_cmd_cb(s, v, pos[1], pos[2], key))
         /\ last' = Event("plot_cmd", <<key>>, v)
    /\ UNCHANGED <<pc, argv, argi>>

NextPlot == MainLoop \/ AppStart \/ PlotCmdCb \/ Closed
NextTv == MainLoop \/ AppStart \/ ExecCmdCb(LinesTv) \/ Closed
NextCd == MainLoop \/ AppStart \/ ExecCmdCb(LinesCd) \/ Closed
NextCase == MainLoop \/ AppStart \/ ExecCmdCb(LinesCase) \/ Closed

\* The sessions
SpecCmd == Init /\ [][NextCmd]_vars
SpecBuf == Init /\ [][NextBuf]_vars
SpecView == Init /\ [][NextView]_vars
SpecList == Init /\ [][NextList]_vars
SpecCase == Init /\ [][NextCase]_vars
SpecPlot == Init /\ [][NextPlot]_vars
SpecTv == Init /\ [][NextTv]_vars
SpecCd == Init /\ [][NextCd]_vars

\* ------------------------------------------------------------- the claims
\* What the dispatcher makes of a line: the words of the trimmed line, and
\* whether the line names a command of the table.
Words(text) == split(strip(text))
IsShell(text) == startswith(strip(text), <<"/">>)
Resolves(text) ==
    ~IsShell(text) /\ Words(text) # <<>> /\ lower(Words(text)[1]) \in CmdNames
IsUnknown(text) ==
    ~IsShell(text) /\ Words(text) # <<>> /\ lower(Words(text)[1]) \notin CmdNames
Ran(text) == Event("exec_cmd", text, None)
Prompt(text) == Msg("gview> %s", <<strip(text)>>)
ErrorLines(h) == {k \in 1..Len(h) : h[k].fmt = "!! Error executing '%s': %s"}

\* C1: no input line makes exec_cmd raise: after every dispatched line,
\* the empty line, a blank line and a failing shell escape included, no
\* exception has escaped the dispatcher.
C1_ExecCmdNeverRaises ==
    last.op = "exec_cmd" => raised = NoExc

\* C2: a line whose first word names no cmd_<name> method does not raise,
\* logs "No such command", runs no handler and leaves the buffer registry,
\* the viewer registry, the current viewer and the working directory (and
\* the objects they refer to) as they were.
C2_UnknownCommand ==
    [][\A text \in LinesCmd :
         (last' = Ran(text) /\ IsUnknown(text)) =>
             /\ raised' = NoExc
             /\ hist' = <<Prompt(text),
                          Msg("!! No such command: '%s'", <<Words(text)[1]>>)>>
             /\ buffers' = buffers /\ images' = images
             /\ viewers' = viewers /\ fitsviewers' = fitsviewers
             /\ _view' = _view /\ cwd' = cwd]_vars

C2_Witness ==
    /\ last = Ran(<<"V", "i", "e", "w">>)
    /\ raised = NoExc
    /\ Len(hist) = 2 /\ hist[2].fmt = "!! No such command: '%s'"
    /\ DOMAIN buffers # {} /\ DOMAIN viewers # {} /\ _view # None

\* C3: when the method of a resolved command raises, the dispatcher logs
\* exactly one error line, made of the trimmed command text and the text
\* of the exception, after what the method logged, and returns normally.
C3_HandlerExceptionCaught ==
    [][\A text \in LinesCmd :
         (last' = Ran(text) /\ Resolves(text)) =>
             LET r == call(log(Self, "gview> %s", <<strip(text)>>),
                           lower(Words(text)[1]), Tail(Words(text)))
             IN r.exc # NoExc =>
                 /\ raised' = NoExc
                 /\ hist' = Append(r.hist,
                                   Msg("!! Error executing '%s': %s",
                                       <<strip(text), r.exc.str>>))
                 /\ Cardinality(ErrorLines(hist')) = 1
                 /\ pc' = "running"]_vars

C3_Witness ==
    /\ last = Ran(<<"r", "d", " ", "1", " ", "x">>)
    /\ raised = NoExc
    /\ hist[Len(hist)] = Msg("!! Error executing '%s': %s",
                             <<<<"r", "d", " ", "1", " ", "x">>, "cannot read file">>)
    /\ Cardinality(ErrorLines(hist)) = 1

\* The first word of a dispatched line, in lower case, and its arguments
Cmd(text) == lower(Words(text)[1])
Args(text) == Tail(Words(text))
\* The path that `rd` reads for the path argument p: p itself when it
\* begins with a slash, else p below the working directory
Resolved(p) == IF p[1] = "/" THEN p ELSE cwd \o <<"/">> \o p
Discarded(n) ==
    Msg("Buffer %s is in use. Will discard the previous data", <<n>>)
InHist(h, m) == \E k \in 1..Len(h) : h[k] = m

\* C4: after a successful `rd n p`, n is bound to the data of p; when n was
\* bound before, the discard warning is logged, n keeps its slot (the same
\* image object) and the registry keeps its size; every other buffer name
\* keeps its image and the data in it.
C4_ReadBindsBuffer ==
    [][\A text \in LinesBuf :
         (/\ last' = Ran(text)
          /\ Cmd(text) = <<"r", "d">>
          /\ hist'[Len(hist')] = Msg("File read", <<>>)) =>
             LET n == Args(text)[1]
                 p == Args(text)[2]
             IN /\ raised' = NoExc
                /\ n \in DOMAIN buffers'
                /\ images'[buffers'[n]].data = FileData(Resolved(p))
                /\ Resolved(p) \in ReadableFiles
                /\ IF n \in DOMAIN buffers
                   THEN /\ buffers'[n] = buffers[n]
                        /\ DOMAIN buffers' = DOMAIN buffers
                        /\ InHist(hist', Discarded(n))
                   ELSE /\ DOMAIN buffers' = DOMAIN buffers \cup {n}
                        /\ ~InHist(hist', Discarded(n))
                /\ \A m \in DOMAIN buffers \ {n} :
                       /\ buffers'[m] = buffers[m]
                       /\ images'[buffers'[m]] = images[buffers[m]]]_vars

C4_Witness ==
    /\ last = Ran(<<" ", " ", "r", "d", " ", "1", " ", "/", "d", "/", "b", " ">>)
    /\ InHist(hist, Discarded(<<"1">>))
    /\ hist[Len(hist)] = Msg("File read", <<>>)
    /\ DOMAIN buffers = {<<"1">>, <<"2">>}
    /\ images[buffers[<<"1">>]].data = "B"
    /\ images[buffers[<<"2">>]].data = "B"
    /\ buffers[<<"1">>] # buffers[<<"2">>]

\* C5: `v name ...` and `tv name ...` for a name that is no buffer create no
\* viewer, change no viewer (image, cut levels, colour map), leave both
\* registries and the current viewer as they were, log "No such buffer"
\* and do not raise, also when no viewer exists yet.
C5_DisplayMissingBuffer ==
    [][\A text \in LinesBuf :
         (/\ last' = Ran(text)
          /\ Cmd(text) \in {<<"v">>, <<"t", "v">>}
          /\ Args(text)[1] \notin DOMAIN buffers) =>
             /\ raised' = NoExc
             /\ hist' = <<Prompt(text),
                          Msg("!! No such buffer: '%s'", <<Args(text)[1]>>)>>
             /\ fitsviewers' = fitsviewers /\ viewers' = viewers
             /\ buffers' = buffers /\ images' = images
             /\ _view' = _view]_vars

C5_Witness ==
    /\ last = Ran(<<"v", " ", "9", " ", "0", " ", "9", ".", "5", " ", "r", "a", "i", "n", "b", "o", "w", "3">>)
    /\ hist[Len(hist)] = Msg("!! No such buffer: '%s'", <<<<"9">>>>)
    /\ _view # None
    /\ fitsviewers[_view].cuts = <<float(<<"0">>), float(<<"9", ".", "5">>)>>
    /\ fitsviewers[_view].cmap = <<"r", "a", "i", "n", "b", "o", "w", "3">>
    /\ fitsviewers[_view].image # None

C7_CloseClearsCurrent ==
    last.op = "closed" =>
        /\ \A n \in DOMAIN viewers : viewers[n] # last.viewer
        /\ ~fitsviewers[last.viewer].top
        /\ _view # last.viewer

\* C8: `swv name` for a name that is no viewer logs "No such viewer", does
\* not raise and leaves the current viewer and the viewer registry as they
\* were.
C8_SwitchToMissingViewer ==
    [][\A text \in LinesView :
         (/\ last' = Ran(text)
          /\ Cmd(text) = <<"s", "w", "v">>
          /\ Len(Args(text)) = 1
          /\ Args(text)[1] \notin DOMAIN viewers) =>
             /\ raised' = NoExc
             /\ hist' = <<Prompt(text),
                          Msg("No such viewer: '%s'", <<Args(text)[1]>>)>>
             /\ _view' = _view
             /\ viewers' = viewers /\ fitsviewers' = fitsviewers]_vars

C8_Witness ==
    /\ last = Ran(<<"s", "w", "v", " ", "z", "z">>)
    /\ hist[Len(hist)] = Msg("No such viewer: '%s'", <<<<"z", "z">>>>)
    /\ _view # None
    /\ Cardinality(DOMAIN viewers) = 2

\* The arguments after the name that `mkv` takes: none, or a width and a
\* height that are both integers
SizeGiven(args) == Len(args) >= 3
ValidMkv(args) ==
    Len(args) = 1 \/ (SizeGiven(args) /\ is_int(args[2]) /\ is_int(args[3]))

\* C9: after `mkv name` or `mkv name width height` a new viewer, of the
\* given or the default size, is registered under name and is the current
\* viewer, whatever the current viewer was; with a width and no height, or
\* with a size that is no integer, no viewer is created and the registry
\* and the current viewer are as they were.
C9_MakeViewerCommand ==
    [][\A text \in LinesView :
         (last' = Ran(text) /\ Cmd(text) = <<"m", "k", "v">> /\ Len(Args(text)) >= 1) =>
             LET args == Args(text)
                 new == Len(fitsviewers) + 1
             IN IF ValidMkv(args)
                THEN /\ Len(fitsviewers') = new
                     /\ viewers' = setitem(viewers, args[1], new)
                     /\ _view' = new
                     /\ fitsviewers'[new].top
                     /\ fitsviewers'[new].width =
                            (IF SizeGiven(args) THEN int(args[2]) ELSE 900)
                     /\ fitsviewers'[new].height =
                            (IF SizeGiven(args) THEN int(args[3]) ELSE 1000)
                     /\ \A v \in 1..Len(fitsviewers) :
                            fitsviewers'[v] = fitsviewers[v]
                ELSE /\ fitsviewers' = fitsviewers
                     /\ viewers' = viewers
                     /\ _view' = _view]_vars

C9_Witness ==
    /\ last = Ran(<<"m", "k", "v", " ", "a", " ", "6", "4", "0", " ", "4", "8", "0">>)
    /\ Len(fitsviewers) = 2
    /\ viewers[<<"a">>] = 2
    /\ _view = 2
    /\ fitsviewers[2].width = 640 /\ fitsviewers[2].height = 480
    /\ fitsviewers[1].top

\* C10: ZView.make_viewer registers the new viewer under its name and
\* makes it the current viewer only when there is none: at start-up the
\* viewer of the first file becomes current and the viewers of the further
\* files leave the pointer alone, so that gview_0 is current when the event
\* loop starts; `v` creates a viewer only when there is no current viewer.
C10_CreateKeepsCurrent ==
    [][/\ last'.op = "main_loop" =>
              LET new == Len(fitsviewers) + 1
              IN /\ Len(fitsviewers') = new
                 /\ viewers' = setitem(viewers, <<"g", "v", "i", "e", "w", "_">> \o <<Digits[argi + 1]>>, new)
                 /\ _view' = (IF _view = None THEN new ELSE _view)
       /\ (last'.op = "app_start" /\ Len(argv) >= 2) =>
              /\ _view' = viewers'[<<"g", "v", "i", "e", "w", "_", "0">>]
              /\ Cardinality(DOMAIN viewers') = Len(argv)
       /\ (last' = Ran(<<"v", " ", "1">>) /\ <<"1">> \in DOMAIN buffers) =>
              IF _view = None
              THEN /\ _view' = Len(fitsviewers) + 1
                   /\ viewers' = setitem(viewers, <<"g", "v", "i", "e", "w", "_", "0">>, _view')
              ELSE /\ _view' = _view
                   /\ viewers' = viewers
                   /\ Len(fitsviewers') = Len(fitsviewers)]_vars

C10_Witness ==
    /\ last.op = "app_start"
    /\ Len(argv) = 2
    /\ _view = viewers[<<"g", "v", "i", "e", "w", "_", "0">>]
    /\ viewers[<<"g", "v", "i", "e", "w", "_", "1">>] # _view
    /\ fitsviewers[viewers[<<"g", "v", "i", "e", "w", "_", "1">>]].top

\* The positions of args that name no buffer when cmd_rmb comes to them:
\* the name was not registered, or an earlier position removed it
MissingAt(args) ==
    {k \in 1..Len(args) :
        args[k] \notin DOMAIN buffers \/ \E j \in 1..(k - 1) : args[j] = args[k]}
NoSuchBuffer(n) == Msg("No such buffer: '%s'", <<n>>)
Named(args) == {args[k] : k \in 1..Len(args)}

\* C11: `rmb` and `rm` remove every named buffer that is registered and log
\* one "No such buffer" line for each name that is missing when its turn
\* comes (a name repeated after its removal included), without stopping;
\* afterwards no named buffer is registered and every other buffer keeps
\* its binding.
C11_RemoveBuffers ==
    [][\A text \in LinesList :
         (last' = Ran(text) /\ Cmd(text) \in {<<"r", "m", "b">>, <<"r", "m">>}) =>
             LET args == Args(text) IN
             /\ raised' = NoExc
             /\ DOMAIN buffers' = DOMAIN buffers \ Named(args)
             /\ \A m \in DOMAIN buffers' : buffers'[m] = buffers[m]
             /\ images' = images
             /\ \A n \in Named(args) :
                    Cardinality({k \in 1..Len(hist') : hist'[k] = NoSuchBuffer(n)})
                        = Cardinality({k \in MissingAt(args) : args[k] = n})
             /\ Cardinality(ErrorLines(hist')) = 0]_vars

C11_Witness ==
    /\ last = Ran(<<"r", "m", "b", " ", "1", " ", "9", " ", "1", " ", "2">>)
    /\ raised = NoExc
    /\ Cardinality({k \in 1..Len(hist) : hist[k] = NoSuchBuffer(<<"1">>)}) = 1
    /\ Cardinality({k \in 1..Len(hist) : hist[k] = NoSuchBuffer(<<"9">>)}) = 1
    /\ ~InHist(hist, NoSuchBuffer(<<"2">>))
    /\ hist[Len(hist)] = Msg("No buffers", <<>>)
    /\ Len(images) = 2

\* The lines of a listing: the text between the newlines
RECURSIVE lines_from(_, _, _)
lines_from(t, cur, acc) ==
    IF t = <<>> THEN Append(acc, cur)
    ELSE IF Head(t) = "\n" THEN lines_from(Tail(t), <<>>, Append(acc, cur))
    ELSE lines_from(Tail(t), Append(cur, Head(t)), acc)
ListingLines(t) == lines_from(t, <<>>, <<>>)

\* The name a line of `lsv` (after its mark) and of `lsb` (its first
\* column of 10 characters) lists
LsvName(line) == Tail(line)
LsbName(line) == strip(SubSeq(line, 1, 10))
Ascending(names) ==
    \A k \in 1..(Len(names) - 1) : str_less(names[k], names[k + 1])
RegistriesUnchanged ==
    /\ buffers' = buffers /\ images' = images
    /\ viewers' = viewers /\ fitsviewers' = fitsviewers
    /\ _view' = _view /\ cwd' = cwd

\* C12: `lsb` and `lsv` change neither registry nor the current viewer,
\* list every registered name once, in ascending order, and print the same
\* listing when run twice in a row.
C12_ListingsArePureReads ==
    [][/\ last' = Ran(<<"l", "s", "v">>) =>
              /\ RegistriesUnchanged /\ raised' = NoExc
              /\ Len(hist') = 2
              /\ IF DOMAIN viewers = {}
                 THEN hist'[2] = Msg("No viewers", <<>>)
                 ELSE LET ls == ListingLines(hist'[2].args[1])
                          names == [k \in 1..Len(ls) |-> LsvName(ls[k])]
                      IN /\ Len(ls) = Cardinality(DOMAIN viewers)
                         /\ \A n \in DOMAIN viewers :
                                \E k \in 1..Len(ls) : names[k] = n
                         /\ Ascending(names)
       /\ last' = Ran(<<"l", "s", "b">>) =>
              /\ RegistriesUnchanged /\ raised' = NoExc
              /\ Len(hist') = 2
              /\ IF DOMAIN buffers = {}
                 THEN hist'[2] = Msg("No buffers", <<>>)
                 ELSE LET ls == ListingLines(hist'[2].args[1])
                          names == [k \in 1..Len(ls) |-> LsbName(ls[k])]
                      IN /\ Len(ls) = Cardinality(DOMAIN buffers)
                         /\ \A n \in DOMAIN buffers :
                                \E k \in 1..Len(ls) : names[k] = n
                         /\ Ascending(names)
       /\ (last' = last /\ last \in {Ran(<<"l", "s", "v">>), Ran(<<"l", "s", "b">>)}) =>
              hist' = hist]_vars

C12_Witness ==
    /\ last = Ran(<<"l", "s", "b">>)
    /\ Cardinality(DOMAIN buffers) = 2
    /\ DOMAIN viewers # {}
    /\ Len(ListingLines(hist[2].args[1])) = 2
    /\ LsbName(ListingLines(hist[2].args[1])[1]) = <<"1">>
    /\ LsbName(ListingLines(hist[2].args[1])[2]) = <<"2">>

\* A word in lower case, letter by letter, and a trimmed line whose first
\* word is put in lower case while the rest stays as it was typed
Fold(w) == [k \in 1..Len(w) |-> lower_char(w[k])]
LowerName(text) ==
    LET t == strip(text)
        n == Len(split(t)[1])
    IN [k \in 1..Len(t) |-> IF k <= n THEN lower_char(t[k]) ELSE t[k]]
NamesCommand(text) ==
    ~IsShell(text) /\ Words(text) # <<>> /\ Fold(Words(text)[1]) \in CmdNames
\* Two logs that differ only where the dispatcher quotes the typed line:
\* in the prompt line and in the error line of a method that raised
SameButEcho(h, g, typed, low) ==
    /\ Len(h) = Len(g)
    /\ h[1] = Msg("gview> %s", <<typed>>)
    /\ g[1] = Msg("gview> %s", <<low>>)
    /\ \A k \in 2..Len(h) :
           \/ h[k] = g[k]
           \/ /\ h[k].fmt = "!! Error executing '%s': %s"
              /\ g[k].fmt = h[k].fmt
              /\ h[k].args[1] = typed /\ g[k].args[1] = low
              /\ h[k].args[2] = g[k].args[2]

\* C13: every spelling of a command name in upper and lower case letters
\* resolves to the method of the name; a line typed with such a spelling
\* leaves the same objects, raises as little and logs the same lines as the
\* line with the name in lower case (the dispatcher's quotation of the
\* typed line aside), and the arguments reach the method as typed: `rd`
\* binds the buffer name in the case it was typed in.
C13_CaseInsensitiveNames ==
    [][/\ \A n \in CmdNames : \A v \in Variants(n) :
              has_cmd(lower(v)) /\ lower(v) = n
       /\ \A text \in LinesCase :
            (last' = Ran(text) /\ NamesCommand(text)) =>
                LET r == exec_cmd(Self, LowerName(text))
                    m == call(log(Self, "gview> %s", <<strip(text)>>),
                              Fold(Words(text)[1]), Tail(Words(text)))
                IN /\ buffers' = r.buffers /\ images' = r.images
                   /\ viewers' = r.viewers /\ fitsviewers' = r.fitsviewers
                   /\ _view' = r._view /\ cwd' = r.cwd
                   /\ focus' = r.focus /\ raised' = r.exc
                   /\ raised' = NoExc
                   /\ SameButEcho(hist', r.hist, strip(text), LowerName(text))
                   /\ buffers' = m.buffers /\ images' = m.images
                   /\ (Fold(Words(text)[1]) = <<"r", "d">>
                          /\ hist'[Len(hist')] = Msg("File read", <<>>)) =>
                        Words(text)[2] \in DOMAIN buffers']_vars

C13_Witness ==
    /\ last = Ran(<<"r", "D", " ", "B", " ", "b">>)
    /\ hist = <<Msg("gview> %s", <<<<"r", "D", " ", "B", " ", "b">>>>),
                Msg("Reading file...(%s)", <<<<"/", "d", "/", "b">>>>),
                Msg("File read", <<>>)>>
    /\ <<"B">> \in DOMAIN buffers /\ <<"b">> \notin DOMAIN buffers
    /\ images[buffers[<<"B">>]].data = "B"

\* C14 as the spec states it: `read name path` loads the file at path
\* into the buffer name, as `rd name path` does.
C14_ReadIsAliasOfRd ==
    last = Ran(<<"r", "e", "a", "d", " ", "1", " ", "/", "d", "/", "a">>) =>
        /\ <<"1">> \in DOMAIN buffers
        /\ images[buffers[<<"1">>]].data = FileData(<<"/", "d", "/", "a">>)

\* C14: `rd name path` loads the file at path into the buffer name; `read`
\* names no command: `read name path` logs "No such command: 'read'", in
\* whatever case the word is typed, loads nothing and leaves the buffer
\* registry and the images as they were.
C14_ReadIsNoCommand ==
    [][\A text \in LinesCase :
         /\ (last' = Ran(text) /\ Fold(Words(text)[1]) = <<"r", "e", "a", "d">>) =>
                /\ raised' = NoExc
                /\ hist' = <<Prompt(text),
                             Msg("!! No such command: '%s'", <<Words(text)[1]>>)>>
                /\ buffers' = buffers /\ images' = images
         /\ (last' = Ran(text) /\ Fold(Words(text)[1]) = <<"r", "d">>
               /\ Len(Words(text)) = 3
               /\ Resolved(Words(text)[3]) \in ReadableFiles) =>
                /\ Words(text)[2] \in DOMAIN buffers'
                /\ images'[buffers'[Words(text)[2]]].data
                       = FileData(Resolved(Words(text)[3]))]_vars

C14_Witness ==
    /\ last = Ran(<<"r", "e", "a", "d", " ", "1", " ", "/", "d", "/", "a">>)
    /\ hist = <<Msg("gview> %s", <<<<"r", "e", "a", "d", " ", "1", " ", "/", "d", "/", "a">>>>),
                Msg("!! No such command: '%s'", <<<<"r", "e", "a", "d">>>>)>>
    /\ <<"1">> \notin DOMAIN buffers
    /\ <<"B">> \in DOMAIN buffers

\* A key press handled: the objects before it, with the key, the position
\* and the scene of the press; the corner of its cutout; the result of
\* find_objects for it; the lines that every failing plot command logs.
Pressed == last'.op = "plot_cmd"
Before == [Self EXCEPT !.env = env']
Found == find_objects(Before, last'.viewer, env'.x, env'.y)
Corner(e) == cutout_radius(e.x, e.y, radius)
InCalls(c, name) == \E k \in 1..Len(c) : c[k] = name
NoObjects == Msg("No objects found", <<>>)
Banner(key) ==
    Msg("%H:%M:%S: %s",
        <<CASE key = "p" -> "ZVIEW> (radial plot)"
            [] key = "e" -> "ZVIEW> (contour plot)"
            [] key = "g" -> "ZVIEW> (gaussians plot)">>)

\* C15: when find_bright_peaks finds no peak, find_objects raises "Cannot
\* find bright peaks" after the cutout and the peak search, without
\* evaluating, selecting or adding offsets, and the plot command (any of
\* the three) logs "No objects found" and never calls make_report.
C15_NoPeaksStopsPipeline ==
    [][(Pressed /\ env'.scene.peaks = 0) =>
           /\ Found.exc = Exc("Exception", "Cannot find bright peaks")
           /\ Found.calls = <<"cutout_radius", "find_bright_peaks">>
           /\ calls' = Found.calls
           /\ ~InCalls(calls', "make_report")
           /\ results' = <<>> /\ rpt'.fields = {}
           /\ hist' = <<Banner(env'.key), NoObjects>>]_vars

C15_Witness ==
    /\ last.op = "plot_cmd" /\ env.key = "p" /\ env.scene.peaks = 0
    /\ calls = <<"cutout_radius", "find_bright_peaks">>
    /\ hist = <<Banner("p"), NoObjects>>
    /\ _plot = "RadialPlot" /\ figure.kind = "radial"
    /\ raised = NoExc

\* C16: every object that find_objects returns is an object of the
\* selection with the corner (x1, y1) of the cutout added, once, to its
\* position (x, y) and to its centroid (objx, objy), and is otherwise as
\* the selection returned it.
C16_OffsetsAddedOnce ==
    [][(Pressed /\ Found.exc = NoExc) =>
           LET c == Corner(env')
               sel == objlist_select(env'.scene.objlist, c[3] - c[1],
                                     c[4] - c[2], min_fwhm, max_fwhm,
                                     min_ellipse, edgew)
           IN /\ results' = Found.ret
              /\ Len(results') = Len(sel)
              /\ \A k \in 1..Len(sel) :
                     /\ results'[k].objx = sel[k].objx + c[1]
                     /\ results'[k].objy = sel[k].objy + c[2]
                     /\ results'[k].x = sel[k].x + c[1]
                     /\ results'[k].y = sel[k].y + c[2]
                     /\ [results'[k] EXCEPT !.x = 0, !.y = 0,
                                            !.objx = 0, !.objy = 0]
                          = [sel[k] EXCEPT !.x = 0, !.y = 0,
                                           !.objx = 0, !.objy = 0]]_vars

C16_Witness ==
    /\ last.op = "plot_cmd" /\ env.x = 38 /\ env.y = 22
    /\ Corner(env) = <<19, 12, 40, 33>>
    /\ Len(results) = 2
    /\ results[1].objx = Bright.objx + 19 /\ results[1].objy = Bright.objy + 12
    /\ results[1].x = Bright.x + 19 /\ results[1].y = Bright.y + 12
    /\ results[2].objx = Faint.objx + 19 /\ results[2].objy = Faint.objy + 12

\* C17: find_objects selects with fwhm bounds 2.0 and 50.0, least
\* ellipticity 0.5 and edge width 0.01; when it returns, it returns the
\* output of the selection in its order (offsets added), which is not empty
\* and holds only objects of the candidates that are within the bounds;
\* when no candidate is within them it raises and returns nothing.
C17_OnlySelectedReturned ==
    [][Pressed =>
           LET c == Corner(env')
               w == c[3] - c[1]
               h == c[4] - c[2]
               objlist == env'.scene.objlist
               sel == objlist_select(objlist, w, h, 20, 500, 50, 1)
               local(obj) == [obj EXCEPT !.x = @ - c[1], !.y = @ - c[2],
                                         !.objx = @ - c[1], !.objy = @ - c[2]]
           IN /\ <<min_fwhm, max_fwhm, min_ellipse, edgew>> = <<20, 500, 50, 1>>
              /\ IF Found.exc = NoExc
                 THEN /\ Found.ret # <<>>
                      /\ Found.ret = add_offsets(sel, c[1], c[2])
                      /\ results' = Found.ret
                 ELSE results' = <<>>
              /\ (sel = <<>> /\ objlist # <<>>) =>
                     Found.exc = Exc("Exception",
                                     "No object matches selection criteria")
              /\ \A k \in 1..Len(results') :
                     LET obj == local(results'[k]) IN
                     /\ \E j \in 1..Len(objlist) : objlist[j] = obj
                     /\ Selects(obj, w, h, 20, 500, 50, 1)
                     /\ 20 <= obj.fwhm /\ obj.fwhm <= 500
                     /\ obj.elipse >= 50]_vars

C17_Witness ==
    /\ last.op = "plot_cmd" /\ env.key = "g"
    /\ env.scene.objlist = <<Faint, Narrow, Bright>>
    /\ Len(results) = 2
    /\ results[1].brightness = Bright.brightness
    /\ results[2].brightness = Faint.brightness
    /\ figure = [kind |-> "fwhm", x |-> results[1].objx, y |-> results[1].objy]

\* C18 as the spec states it: a plot command whose object finding fails
\* logs "No objects found" and does nothing else: it makes no plot window,
\* leaves the current plot as it is and draws nothing.
C18_FailedPlotOnlyLogs ==
    [][(Pressed /\ Found.exc # NoExc) =>
           /\ InHist(hist', NoObjects)
           /\ plot_windows' = plot_windows
           /\ _plot' = _plot
           /\ figure' = figure]_vars

\* C18: a plot command whose object finding fails catches the failure and
\* logs "No objects found".  The radial and the gaussians plot then return:
\* no plot window is made, the current plot stays and nothing is drawn
\* (plot_cmd_cb then gives the plot window the title of the command, and
\* raises AttributeError when no plot window exists yet).  The
\* contour plot goes on: it makes the plot window if there is none,
\* replaces the current plot by a contour plot and draws the contours
\* around the position of the key press.
C18_FailedPlot ==
    [][(Pressed /\ Found.exc # NoExc) =>
           /\ hist' = <<Banner(env'.key), NoObjects>>
           /\ results' = <<>> /\ rpt'.fields = {}
           /\ env'.key \in {"p", "g"} =>
                  /\ plot_windows' = plot_windows
                  /\ _plot' = _plot /\ figure' = figure
                  /\ IF _plot_w = "None"
                     THEN _plot_w' = "None" /\ raised' # NoExc
                     ELSE _plot_w' = Title(env'.key) /\ raised' = NoExc
           /\ env'.key = "e" =>
                  /\ plot_windows' =
                         IF _plot = "None" THEN plot_windows + 1
                         ELSE plot_windows
                  /\ _plot' = "ContourPlot" /\ _plot_w' = "Contours"
                  /\ figure' = [kind |-> "contours",
                                x |-> env'.x, y |-> env'.y]
                  /\ raised' = NoExc]_vars

C18_Witness ==
    /\ last.op = "plot_cmd" /\ env.key = "e"
    /\ env.scene.objlist = <<Narrow, Wide, Long, AtEdge>>
    /\ hist = <<Banner("e"), NoObjects>>
    /\ plot_windows = 1 /\ _plot = "ContourPlot"
    /\ figure = [kind |-> "contours", x |-> env.x, y |-> env.y]

\* The report that make_report builds for the same objects when the
\* header is changed as given
Report(header) ==
    make_report([Before EXCEPT !.env.scene.header = header],
                fitsviewers[last'.viewer].image, results'[1]).ret
SkyFields == {"ra_deg", "dec_deg", "ra_txt", "dec_txt"}

\* C19: when the WCS fails, make_report does not raise and returns a
\* report with ra_txt = dec_txt = "BAD WCS" and ra_deg = dec_deg = 0.0
\* whose other fields (star size, position, shape, time stamps) are those of
\* the report for a working WCS; when the pixel scale cannot be read, the
\* report has starsize = 0.0 and its other fields are those of the report
\* for a readable scale.
C19_ReportFallbacks ==
    [][(/\ Pressed /\ InCalls(calls', "make_report")
        /\ is_float(get_keyword(env'.scene.header))) =>
           LET header == env'.scene.header
               sky == Report([header EXCEPT !.wcs_ok = TRUE])
               size == Report([header EXCEPT !.geom_ok = TRUE])
           IN /\ raised' = NoExc
              /\ rpt'.fields = ReportFields
              /\ rpt'.time_local = "localtime" /\ rpt'.time_ut = "gmtime"
              /\ \A f \in ReportFields \ SkyFields : rpt'[f] = sky[f]
              /\ \A f \in ReportFields \ {"starsize"} : rpt'[f] = size[f]
              /\ IF header.wcs_ok
                 THEN rpt'.ra_txt # BadWCS /\ rpt'.dec_txt # BadWCS
                 ELSE /\ rpt'.ra_txt = BadWCS /\ rpt'.dec_txt = BadWCS
                      /\ rpt'.ra_deg = 0 /\ rpt'.dec_deg = 0
              /\ IF header.geom_ok
                 THEN rpt'.starsize =
                          starsize(results'[1].fwhm_x, header.cdelt1,
                                   results'[1].fwhm_y, header.cdelt2)
                 ELSE rpt'.starsize = 0]_vars

C19_Witness ==
    /\ last.op = "plot_cmd" /\ env.key = "p"
    /\ ~env.scene.header.wcs_ok /\ env.scene.header.geom_ok
    /\ raised = NoExc
    /\ rpt.fields = ReportFields
    /\ rpt.ra_txt = BadWCS /\ rpt.dec_txt = BadWCS
    /\ rpt.ra_deg = 0 /\ rpt.dec_deg = 0
    /\ rpt.starsize = 70 /\ rpt.x = results[1].objx /\ rpt.fwhm = Faint.fwhm
    /\ rpt.time_ut = "gmtime"
    /\ hist[Len(hist)] = Msg("seeing size %5.2f", <<70>>)

\* C20: whatever fails inside it, make_report does not raise and returns
\* a report that has the fields time_local, time_ut and starsize.
C20_ReportAlwaysComplete ==
    (last.op = "plot_cmd" /\ InCalls(calls, "make_report")) =>
        {"time_local", "time_ut", "starsize"} \subseteq rpt.fields

\* The arguments of `tv` with every `bw` and every `jt` replaced, and the
\* `v` line with these arguments
Renamed(args) ==
    [k \in 1..Len(args) |->
        IF args[k] = <<"b", "w">> THEN <<"g", "r", "a", "y">>
        ELSE IF args[k] = <<"j", "t">> THEN <<"r", "a", "i", "n", "b", "o", "w", "3">> ELSE args[k]]
AsV(text) ==
    join(<<" ">>, <<<<"v">>, Args(text)[1]>> \o Renamed(Tail(Args(text))))

\* C21: `tv name args...` leaves the objects (viewers, their image, cut
\* levels and colour map, the registries, the current viewer) that `v name
\* args'...` leaves, args' being args with `bw` replaced by `gray` and `jt`
\* by `rainbow3`, and logs the same lines and fails in the same way (the
\* dispatcher's quotation of the typed line aside).
C21_TvIsVWithRenamedMaps ==
    [][\A text \in LinesTv :
         (last' = Ran(text) /\ Cmd(text) = <<"t", "v">>) =>
             LET r == exec_cmd(Self, AsV(text))
             IN /\ fitsviewers' = r.fitsviewers /\ viewers' = r.viewers
                /\ _view' = r._view
                /\ buffers' = r.buffers /\ images' = r.images
                /\ cwd' = r.cwd /\ focus' = r.focus /\ raised' = r.exc
                /\ SameButEcho(hist', r.hist, strip(text), AsV(text))]_vars

C21_Witness ==
    /\ last = Ran(<<"t", "v", " ", "1", " ", "0", " ", "9", ".", "5", " ", "b", "w">>)
    /\ AsV(last.text) = <<"v", " ", "1", " ", "0", " ", "9", ".", "5", " ", "g", "r", "a", "y">>
    /\ _view # None /\ <<"1">> \in DOMAIN buffers
    /\ fitsviewers[_view].image = buffers[<<"1">>]
    /\ fitsviewers[_view].cuts = <<float(<<"0">>), float(<<"9", ".", "5">>)>>
    /\ fitsviewers[_view].cmap = <<"g", "r", "a", "y">>
    /\ ~fitsviewers[_view].inverted
    /\ ErrorLines(hist) = {}

\* C23: `v name args...` for a registered buffer whose first optional
\* argument is a number while the second is missing or is no number
\* applies no cut levels and raises no error: the dispatcher has no error
\* to report.
C23_LoneNumberRaisesNothing ==
    \A text \in LinesTv :
        (/\ last = Ran(text) /\ Cmd(text) = <<"v">>
         /\ Args(text)[1] \in DOMAIN buffers
         /\ Len(Args(text)) >= 2 /\ is_float(Args(text)[2])
         /\ ~(Len(Args(text)) >= 3 /\ is_float(Args(text)[3]))) =>
            /\ raised = NoExc
            /\ ErrorLines(hist) = {}

\* The file that `rd` was told to read, as the log names it
Reading(p) == Msg("Reading file...(%s)", <<p>>)

\* C22: the working directory is the start-up directory until a `cd`
\* succeeds; a successful `cd` sets it to its argument (taken relative to
\* the working directory unless it begins with a slash), or to the home
\* directory without argument, and reports it; a failing `cd` and every
\* other event leave it as it is; `pwd` reports it; `rd name path` reads
\* path unchanged when it begins with a slash and else the join of the
\* working directory and path.
C22_RelativePaths ==
    [][/\ (last'.op # "exec_cmd") => cwd' = cwd
       /\ \A text \in LinesCd :
            last' = Ran(text) =>
              /\ Cmd(text) = <<"c", "d">> =>
                   LET dir == IF Args(text) = <<>> THEN HOME
                              ELSE Resolved(Args(text)[1])
                   IN IF dir \in Dirs
                      THEN /\ cwd' = dir
                           /\ hist' = <<Prompt(text), Msg("%s", <<dir>>)>>
                      ELSE /\ cwd' = cwd
                           /\ Cardinality(ErrorLines(hist')) = 1
                           /\ raised' = NoExc
              /\ Cmd(text) = <<"p", "w", "d">> =>
                   /\ cwd' = cwd
                   /\ hist' = <<Prompt(text), Msg("%s", <<cwd>>)>>
              /\ Cmd(text) = <<"r", "d">> =>
                   LET n == Args(text)[1]
                       p == Args(text)[2]
                       used == IF p[1] = "/" THEN p ELSE cwd \o <<"/">> \o p
                   IN /\ cwd' = cwd
                      /\ InHist(hist', Reading(used))
                      /\ IF used \in ReadableFiles
                         THEN /\ images'[buffers'[n]] =
                                     [data |-> FileData(used), path |-> used]
                              /\ ErrorLines(hist') = {}
                         ELSE Cardinality(ErrorLines(hist')) = 1]_vars

C22_Witness ==
    /\ last = Ran(<<"r", "d", " ", "1", " ", "b">>)
    /\ cwd = HOME /\ cwd # StartDir
    /\ InHist(hist, Reading(<<"/", "h", "/", "b">>))
    /\ hist[Len(hist)] = Msg("File read", <<>>)
    /\ images[buffers[<<"1">>]] = [data |-> "H", path |-> <<"/", "h", "/", "b">>]

\* C24: `swv name` for a registered viewer and `mkv name` with valid
\* arguments log nothing of their own and the dispatcher reports no error
\* for them: the log holds the echo of the line only.
C24_SwitchAndMakeAreSilent ==
    \A text \in LinesView :
        (/\ last = Ran(text)
         /\ \/ Cmd(text) = <<"s", "w", "v">> /\ Args(text)[1] \in DOMAIN viewers
            \/ Cmd(text) = <<"m", "k", "v">> /\ ValidMkv(Args(text))) =>
            /\ ErrorLines(hist) = {}
            /\ hist = <<Prompt(text)>>

\* C25: the current viewer is None or a viewer that is registered and
\* whose window is open.
C25_CurrentViewerRegistered ==
    \/ _view = None
    \/ /\ \E n \in DOMAIN viewers : viewers[n] = _view
       /\ fitsviewers[_view].top

\* C26: a `rd name path` whose file cannot be read leaves the buffer
\* registry as it was, and the dispatcher reports the failure in one error
\* line without raising.
C26_FailedReadKeepsRegistry ==
    [][\A text \in LinesCmd :
         (/\ last' = Ran(text) /\ Resolves(text) /\ Cmd(text) = <<"r", "d">>
          /\ Len(Args(text)) >= 2
          /\ Resolved(Args(text)[2]) \notin ReadableFiles) =>
             /\ buffers' = buffers
             /\ raised' = NoExc
             /\ Cardinality(ErrorLines(hist')) = 1]_vars

\* C27: after the close event of a viewer's window, that viewer's window
\* is destroyed, no registry entry refers to it, and the event has not
\* raised.
C27_CloseRemovesOwnViewer ==
    last.op = "closed" =>
        /\ raised = NoExc
        /\ ~fitsviewers[last.viewer].top
        /\ \A n \in DOMAIN viewers :
               viewers[n] # last.viewer /\ fitsviewers[viewers[n]].top

\* C28: no plot key event makes plot_cmd_cb raise, and every one leaves
\* the focus on the viewer widget.
C28_PlotCallbackNeverRaises ==
    last.op = "plot_cmd" => raised = NoExc /\ focus = "viewer_w"

\* A key press that gets as far as making a plot: every contour plot, and
\* a radial or gaussians plot whose object finding succeeded
Plots == Pressed /\ (env'.key = "e" \/ Found.exc = NoExc)
Drawing(key) ==
    CASE key = "p" -> "radial" [] key = "e" -> "contours" [] key = "g" -> "fwhm"
PlotKind(key) ==
    CASE key = "p" -> "RadialPlot" [] key = "e" -> "ContourPlot"
      [] key = "g" -> "FWHMPlot"

\* C29: the plot and its window are made at most once: there is none until
\* the first key press that gets as far as making a plot, which makes
\* both; afterwards the plot is never None again, no further window is made
\* and every later plot clears the one figure and draws on it.
C29_OnePlotWindow ==
    [][/\ (_plot = "None") <=> (plot_windows = 0 /\ _plot_w = "None")
       /\ plot_windows' <= 1
       /\ _plot # "None" =>
              /\ _plot' # "None" /\ _plot_w' # "None"
              /\ plot_windows' = plot_windows
       /\ _plot = "None" =>
              IF Plots
              THEN _plot' # "None" /\ plot_windows' = 1
              ELSE _plot' = "None" /\ plot_windows' = 0
       /\ IF Plots
          THEN /\ _plot' = PlotKind(env'.key)
               /\ figure'.kind = Drawing(env'.key)
          ELSE _plot' = _plot /\ figure' = figure]_vars

C29_Witness ==
    /\ last.op = "plot_cmd" /\ env.key = "g"
    /\ hist = <<Banner("g"), NoObjects>>
    /\ plot_windows = 1
    /\ _plot = "ContourPlot" /\ figure.kind = "contours"
    /\ _plot_w = "FWHM"
====
